---- MODULE Spec2Model ----
(***************************************************************************)
(* A model of the Excel rule-evaluation utilities: the cell locator        *)
(* (utils.col_letter_to_index, ExcelAnalyzerControl._parse_cell_position,  *)
(* _is_valid_cell_position, DataManager.get_cell_value), the rule          *)
(* dispatcher and its strategies (rule_extractor) and the batch loop       *)
(* (main.ExcelAnalyzer).                                                   *)
(*                                                                         *)
(* Python values are modelled as follows.  A str is a sequence of          *)
(* characters, each character a one-token string; a CJK character is the   *)
(* token "uXXXX" of its code point.  A Python object read from a sheet or  *)
(* a rule table is a record [t, s, n]: a str (t = "str", text s), a number *)
(* (t = "num", value n) or pandas' NaN for an empty cell (t = "nan").      *)
(* A call's outcome is a record [exc, val]: exc = "" when it returns val,  *)
(* otherwise the name of the exception raised.                             *)
(***************************************************************************)
EXTENDS Integers, Sequences, FiniteSets, TLC

VARIABLES
    rules,        \* ExcelAnalyzer.rules: None or the list of rule rows
    data_dict,    \* ExcelAnalyzer.data_dict: None or sheet name -> rows
    results,      \* ExcelAnalyzer.results: None or the list of result dicts
    ret,          \* the ExcelAnalyzer method that returned last, and its value;
                  \* "analyze_data" when analyze_data has called none yet
    position,     \* the address string handed to the locator functions
    call,         \* the locator function that returned last, and its outcome
    sheet_cache,  \* DataManager.sheet_cache: set of sheet names read so far
    value_cache,  \* DataManager.value_cache: cache key -> value
    args,         \* the pure function called, and its arguments
    returned,     \* the outcome of that call
    manager_rules,      \* RuleManager.rules: (name, rule_info) in insertion order
    rule_dependencies,  \* RuleManager.rule_dependencies: name -> list of names
    execution_order,    \* RuleManager.execution_order
    added,              \* the last add_rule call: its arguments and what it returned
    excel_file,         \* DataManager.excel_file: the workbook it reads
    excel,              \* ExcelAnalyzerControl.excel: None or the workbook loaded
    control_rules,      \* ExcelAnalyzerControl.rules: rule name -> rule
    loaded,             \* the ExcelAnalyzerControl method that returned last
    rpa                 \* RPAInterface.analyze_data: the call running and its reply;
                        \* what get_formatted_results returned since that call

analyzer_vars == <<rules, data_dict, results, ret>>
locate_vars == <<position, call, sheet_cache, value_cache, excel_file>>
topn_vars == <<args, returned>>
manager_vars == <<manager_rules, rule_dependencies, execution_order, added>>
control_vars == <<excel, control_rules, loaded>>
rpa_vars == <<rpa>>
vars == <<rules, data_dict, results, ret, position, call, sheet_cache,
          value_cache, args, returned, manager_rules, rule_dependencies,
          execution_order, added, excel_file, excel, control_rules, loaded,
          rpa>>

\* the variables of the other components, for each component
outside_analyzer == <<locate_vars, topn_vars, manager_vars, control_vars, rpa_vars>>
outside_locate == <<analyzer_vars, topn_vars, manager_vars, control_vars, rpa_vars>>
outside_extract == <<analyzer_vars, locate_vars, manager_vars, control_vars, rpa_vars>>
outside_manager == <<analyzer_vars, locate_vars, topn_vars, control_vars, rpa_vars>>
outside_control == <<analyzer_vars, locate_vars, topn_vars, manager_vars, rpa_vars>>
outside_rpa == <<locate_vars, topn_vars, manager_vars, control_vars>>

(***************************************************************************)
(* Characters and Python's str primitives.                                 *)
(***************************************************************************)
UpperLetters ==
    <<"A","B","C","D","E","F","G","H","I","J","K","L","M",
      "N","O","P","Q","R","S","T","U","V","W","X","Y","Z">>

LowerLetters ==
    <<"a","b","c","d","e","f","g","h","i","j","k","l","m",
      "n","o","p","q","r","s","t","u","v","w","x","y","z">>

Digits == <<"0","1","2","3","4","5","6","7","8","9">>

Range(f) == {f[i] : i \in DOMAIN f}

UpperSet == Range(UpperLetters)

LowerSet == Range(LowerLetters)

DigitSet == Range(Digits)

IndexOf(seq, c) == CHOOSE i \in DOMAIN seq : seq[i] = c

\* ord(): the code point of a character
Ord(c) ==
    IF c \in UpperSet THEN 64 + IndexOf(UpperLetters, c)
    ELSE IF c \in LowerSet THEN 96 + IndexOf(LowerLetters, c)
    ELSE IF c \in DigitSet THEN 47 + IndexOf(Digits, c)
    ELSE CASE c = "\n" -> 10
           [] c = " " -> 32
           [] c = "$" -> 36
           [] c = "%" -> 37
           [] c = "(" -> 40
           [] c = ")" -> 41
           [] c = "*" -> 42
           [] c = "+" -> 43
           [] c = "-" -> 45
           [] c = "<" -> 60
           [] c = ">" -> 62
           [] c = "u4E09" -> 19977
           [] c = "u4E2A" -> 20010
           [] c = "u4F4E" -> 20302
           [] c = "u5217" -> 21015
           [] c = "u53F7" -> 21495
           [] c = "u591A" -> 22810
           [] c = "u5927" -> 22823
           [] c = "u5929" -> 22825
           [] c = "u6570" -> 25968
           [] c = "u6599" -> 26009
           [] c = "u6700" -> 26368
           [] c = "u6761" -> 26465
           [] c = "u7684" -> 30340
           [] c = "u9AD8" -> 39640
           [] c = "u503C" -> 20540

\* str.upper() and str.lower() on one character
Upper(c) ==
    IF c \in LowerSet THEN UpperLetters[IndexOf(LowerLetters, c)]
    ELSE c

Lower(c) ==
    IF c \in UpperSet THEN LowerLetters[IndexOf(UpperLetters, c)]
    ELSE c

UpperStr(s) == [i \in DOMAIN s |-> Upper(s[i])]

LowerStr(s) == [i \in DOMAIN s |-> Lower(s[i])]

Whitespace == {" ", "\n"}

\* s[1:] and friends: the suffix of s from 0-based index k
Tail0(s, k) == IF k >= Len(s) THEN <<>> ELSE SubSeq(s, k + 1, Len(s))

RECURSIVE LStrip(_, _)
LStrip(s, chars) ==
    IF s # <<>> /\ s[1] \in chars THEN LStrip(Tail(s), chars) ELSE s

RECURSIVE RStrip(_, _)
RStrip(s, chars) ==
    IF s # <<>> /\ s[Len(s)] \in chars
    THEN RStrip(SubSeq(s, 1, Len(s) - 1), chars)
    ELSE s

\* str.strip(chars)
Strip(s, chars) == RStrip(LStrip(s, chars), chars)

\* pat in s
Contains(s, pat) ==
    \E i \in 1..(Len(s) - Len(pat) + 1) : SubSeq(s, i, i + Len(pat) - 1) = pat

\* s.find(pat) for a pattern that occurs: 0-based index of the first match
Find(s, pat) ==
    CHOOSE i \in 0..(Len(s) - Len(pat)) :
        /\ SubSeq(s, i + 1, i + Len(pat)) = pat
        /\ \A j \in 0..(i - 1) : SubSeq(s, j + 1, j + Len(pat)) # pat

\* s.split(sep): the list of pieces of s between occurrences of sep
RECURSIVE Split(_, _)
Split(s, sep) ==
    IF Contains(s, sep)
    THEN LET i == Find(s, sep)
         IN  <<SubSeq(s, 1, i)>> \o Split(Tail0(s, i + Len(sep)), sep)
    ELSE <<s>>

AllDigits(s) == \A i \in DOMAIN s : s[i] \in DigitSet

RECURSIVE DigitsValue(_)
DigitsValue(s) ==
    IF s = <<>> THEN 0
    ELSE 10 * DigitsValue(SubSeq(s, 1, Len(s) - 1))
         + (IndexOf(Digits, s[Len(s)]) - 1)

Ok(v) == [exc |-> "", val |-> v]

Raise(e) == [exc |-> e, val |-> 0]

\* int(s) and float(s) on the texts of this model: surrounding whitespace
\* is ignored, one sign is allowed, the rest must be decimal digits.  (The
\* texts of the model hold no ".", "_", exponent, "inf" or "nan".)
ParseNumber(s) ==
    LET t == Strip(s, Whitespace)
        signed == t # <<>> /\ t[1] \in {"+", "-"}
        body == IF signed THEN Tail(t) ELSE t
    IN  IF body = <<>> \/ ~AllDigits(body) THEN Raise("ValueError")
        ELSE Ok(IF signed /\ t[1] = "-" THEN 0 - DigitsValue(body)
                ELSE DigitsValue(body))

RECURSIVE NatStr(_)
NatStr(n) ==
    IF n < 10 THEN <<Digits[n + 1]>>
    ELSE NatStr(n \div 10) \o <<Digits[(n % 10) + 1]>>

\* str(v) of a float holding a whole number: "95.0", "-5.0"
FloatStr(v) ==
    (IF v < 0 THEN <<"-">> ELSE <<>>)
    \o NatStr(IF v < 0 THEN 0 - v ELSE v) \o <<".", "0">>

(***************************************************************************)
(* Python objects and list indexing.                                       *)
(***************************************************************************)
Str(s) == [t |-> "str", s |-> s, n |-> 0]

Num(n) == [t |-> "num", s |-> <<>>, n |-> n]

NaN == [t |-> "nan", s |-> <<>>, n |-> 0]

None == [t |-> "None", s |-> <<>>, n |-> 0]

\* bool(o): None, an empty str, list or dict and the number 0 are false,
\* NaN is true
Truthy(o) ==
    CASE o.t = "str" -> o.s # <<>>
      [] o.t = "num" -> o.n # 0
      [] o.t = "None" -> FALSE
      [] o.t = "list" -> Len(o.items) > 0
      [] o.t = "dict" -> DOMAIN o.items # {}
      [] OTHER -> TRUE

\* list[i] with Python's negative indices; lst is 1-based here
PyIndex(lst, i) ==
    LET j == IF i < 0 THEN i + Len(lst) ELSE i
    IN  IF j < 0 \/ j >= Len(lst) THEN Raise("IndexError")
        ELSE Ok(lst[j + 1])

(***************************************************************************)
(* utils.py                                                                *)
(***************************************************************************)
RECURSIVE ColLetterFold(_, _)
ColLetterFold(letter, index) ==
    IF letter = <<>> THEN index
    ELSE ColLetterFold(Tail(letter),
                       index * 26 + (Ord(Upper(letter[1])) - Ord("A") + 1))

\* a col_letter_to_index that forgets the final "- 1" (one-based result)
col_letter_to_index_onebased(letter) == ColLetterFold(letter, 0)

col_letter_to_index(letter) == ColLetterFold(letter, 0) - 1

IsAlpha(s) ==
    s # <<>> /\ \A i \in DOMAIN s :
        s[i] \in UpperSet \cup LowerSet

\* parse_result_column: the column letters or None; "in" on a number or
\* NaN raises TypeError
parse_result_column(result) ==
    IF ~Truthy(result) THEN Ok(None)
    ELSE IF result.t # "str" THEN Raise("TypeError")
    ELSE IF ~Contains(result.s, <<"$">>) \/ ~Contains(result.s, <<"*">>)
         THEN Ok(None)
         ELSE LET start == Find(result.s, <<"$">>) + 1
                  end == Find(result.s, <<"*">>)
              IN  IF start >= end THEN Ok(None)
                  ELSE LET col_letters == SubSeq(result.s, start + 1, end)
                       IN  IF ~IsAlpha(col_letters) THEN Ok(None)
                           ELSE Ok(Str(col_letters))

(***************************************************************************)
(* rule_extractor.py                                                       *)
(***************************************************************************)
InventoryEfficiency ==
    <<"I","n","v","e","n","t","o","r","y"," ",
      "e","f","f","i","c","i","e","n","c","y">>

\* the texts the code compares with and returns
TxtInvalidData == <<"u6570", "u636E", "u65E0", "u6548">>

TxtNoSheet == <<"u5DE5", "u4F5C", "u8868", "u4E0D", "u5B58", "u5728">>

TxtBadLocation == <<"u4F4D", "u7F6E", "u65E0", "u6548">>

TxtBadResult == <<"R","e","s","u","l","t", "u683C", "u5F0F", "u65E0", "u6548">>

TxtUnknownRule ==
    <<"u672A", "u77E5", "u7684", "u89C4", "u5219", "u7C7B", "u578B">>

TxtLowest5 == <<"u6700", "u4F4E", "u7684", "5", "u4E2A", "u6599", "u53F7">>

TxtHighest5 == <<"u6700", "u9AD8", "u7684", "5", "u4E2A", "u6599", "u53F7">>

TxtLargest3 ==
    <<"u6700", "u5927", "u7684", "u4E09", "u4E2A", "u6599", "u53F7">>

TxtMostDays3 ==
    <<"u5929", "u6570", "u6700", "u591A", "u7684", "u4E09", "u6761">>

TxtAO3 == <<"A", "O", "u5217", "u6570", "u503C">> \o TxtLargest3

TxtLargest == <<"u6700", "u5927">>

TxtThree == <<"u4E09", "u4E2A">>

TxtFive == <<"5", "u4E2A">>

TxtColumn == <<"u5217">>

List(items) == [t |-> "list", s |-> <<>>, n |-> 0, items |-> items]

ResultDict(description, result, comments, optimization_plan) ==
    [description |-> description, result |-> result,
     comments |-> comments, optimization_plan |-> optimization_plan]

\* float(cell.strip('%')): a cell that is no str has no strip
CellAsFloat(cell) ==
    IF cell.t # "str" THEN Raise("AttributeError")
    ELSE ParseNumber(Strip(cell.s, {"%"}))

\* sheet_data[row][col]
CellAt(sheet_data, row, col) ==
    LET r == PyIndex(sheet_data, row)
    IN  IF r.exc # "" THEN r ELSE PyIndex(r.val, col)

\* [c.strip() for c in text.split('<br>')]
BrList(text) ==
    LET parts == Split(text, <<"<", "b", "r", ">">>)
    IN  [i \in DOMAIN parts |-> Strip(parts[i], Whitespace)]

\* lst[idx] if idx < len(lst) else ''
ItemOrEmpty(lst, idx) == IF idx < Len(lst) THEN Str(lst[idx + 1]) ELSE Str(<<>>)

extract_kpi_rule(sheet_data, location, comments, optimization_plan) ==
    IF location.t # "str" THEN Raise("TypeError")
    ELSE IF location.s = <<>> THEN Raise("IndexError")
    ELSE LET col == col_letter_to_index(<<location.s[1]>>)
             rownum == ParseNumber(Tail(location.s))
             row == rownum.val - 1
             cell == CellAt(sheet_data, row, col)
             value == IF cell.exc # "" THEN cell ELSE CellAsFloat(cell.val)
             idx == IF value.val < 80 THEN 0
                    ELSE IF value.val <= 120 THEN 1 ELSE 2
         IN  IF rownum.exc # "" THEN rownum
             ELSE IF value.exc \in {"ValueError", "IndexError"}
             THEN Ok(ResultDict(Str(InventoryEfficiency), None,
                                Str(TxtInvalidData), Str(<<>>)))
             ELSE IF value.exc # "" THEN value
             ELSE IF comments.t # "str" \/ optimization_plan.t # "str"
             THEN Raise("AttributeError")
             ELSE Ok(ResultDict(
                        Str(InventoryEfficiency),
                        Str(FloatStr(value.val) \o <<"%">>),
                        ItemOrEmpty(BrList(comments.s), idx),
                        ItemOrEmpty(BrList(optimization_plan.s), idx)))

\* the loop of lines 40-45 from data row i on: the (val, i) pairs
RECURSIVE ScanValues(_, _, _)
ScanValues(sheet_data, value_col_idx, i) ==
    IF i >= Len(sheet_data) THEN Ok(<<>>)
    ELSE LET cell == PyIndex(sheet_data[i + 1], value_col_idx)
             val == IF cell.exc # "" THEN cell ELSE CellAsFloat(cell.val)
             rest == ScanValues(sheet_data, value_col_idx, i + 1)
         IN  IF val.exc \in {"ValueError", "IndexError"} THEN rest
             ELSE IF val.exc # "" THEN val
             ELSE IF rest.exc # "" THEN rest
             ELSE Ok(<< <<val.val, i>> >> \o rest.val)

\* tuple comparison (val, i) < (val2, i2)
TupleLess(a, b) == a[1] < b[1] \/ (a[1] = b[1] /\ a[2] < b[2])

\* values.sort(reverse=reverse) on pairwise different tuples
RECURSIVE SortTuples(_, _)
SortTuples(S, reverse) ==
    IF S = {} THEN <<>>
    ELSE LET first == CHOOSE x \in S : \A y \in S \ {x} :
                          IF reverse THEN TupleLess(y, x) ELSE TupleLess(x, y)
         IN  <<first>> \o SortTuples(S \ {first}, reverse)

\* the loop of lines 50-57
RECURSIVE CollectKeys(_, _, _)
CollectKeys(sheet_data, top_n, target_col_idx) ==
    IF top_n = <<>> THEN <<>>
    ELSE LET val == CellAt(sheet_data, top_n[1][2], target_col_idx)
         IN  (IF val.exc = "" /\ Truthy(val.val) THEN <<val.val>> ELSE <<>>)
             \o CollectKeys(sheet_data, Tail(top_n), target_col_idx)

\* values[:n]
FirstN(values, n) == SubSeq(values, 1, IF n < Len(values) THEN n ELSE Len(values))

\* lines 47-59: sort the (val, i) pairs, cut to n, collect the keys
TopKeys(sheet_data, values, target_col_idx, n, reverse) ==
    IF values.exc # "" THEN values
    ELSE Ok(CollectKeys(sheet_data,
                        FirstN(SortTuples(Range(values.val), reverse), n),
                        target_col_idx))

\* an extract_top_n_values that always sorts in descending order
extract_top_n_values_descending(sheet_data, value_col, target_col, n, reverse) ==
    TopKeys(sheet_data,
            ScanValues(sheet_data, col_letter_to_index(value_col), 1),
            col_letter_to_index(target_col), n, TRUE)

extract_top_n_values(sheet_data, value_col, target_col, n, reverse) ==
    TopKeys(sheet_data,
            ScanValues(sheet_data, col_letter_to_index(value_col), 1),
            col_letter_to_index(target_col), n, reverse)

\* lines 81-97: the rule with an empty Rule field
DirectCell(rule_row, sheet_data) ==
    LET location == rule_row.Location
        rownum == ParseNumber(Tail(location.s))
        cell == CellAt(sheet_data, rownum.val - 1,
                       col_letter_to_index(<<location.s[1]>>))
        invalid == Ok(ResultDict(rule_row.Description, None,
                                 Str(TxtBadLocation), Str(<<>>)))
    IN  IF location.t # "str" THEN Raise("TypeError")
        ELSE IF location.s = <<>> THEN invalid
        ELSE IF rownum.exc # "" THEN invalid
        ELSE IF cell.exc # "" THEN invalid
        ELSE Ok(ResultDict(rule_row.Description, cell.val,
                           rule_row.Comments, rule_row.Optimization_plan))

\* rule_text.split('u5217')[0].strip()
ColumnOfRule(rule_text) == Strip(Split(rule_text, TxtColumn)[1], Whitespace)

\* lines 108-130: the rule kinds, in the order of the if/elif chain
RuleKind(rule_text, sheet_data, target_col) ==
    IF Contains(rule_text, TxtLowest5)
    THEN extract_top_n_values(sheet_data, <<"A", "S">>, target_col, 5, FALSE)
    ELSE IF Contains(rule_text, TxtHighest5)
    THEN extract_top_n_values(sheet_data, <<"A", "S">>, target_col, 5, TRUE)
    ELSE IF Contains(rule_text, TxtLargest3)
    THEN extract_top_n_values(sheet_data, ColumnOfRule(rule_text),
                              target_col, 3, TRUE)
    ELSE IF Contains(rule_text, TxtMostDays3)
    THEN extract_top_n_values(sheet_data, <<"D">>, target_col, 3, TRUE)
    ELSE IF Contains(rule_text, TxtAO3)
    THEN extract_top_n_values(sheet_data, <<"A", "O">>, target_col, 3, TRUE)
    ELSE IF Contains(rule_text, TxtLargest)
            /\ ~Contains(rule_text, TxtThree)
            /\ ~Contains(rule_text, TxtFive)
    THEN extract_top_n_values(sheet_data, ColumnOfRule(rule_text),
                              target_col, 1, TRUE)
    ELSE Raise("unknown")

\* a return statement that always hands the list over
RuleResult_always_list(rule_row, result) ==
    IF result.exc = "unknown"
    THEN Ok(ResultDict(rule_row.Description, None, Str(TxtUnknownRule),
                       Str(<<>>)))
    ELSE IF result.exc # "" THEN result
    ELSE Ok(ResultDict(rule_row.Description, List(result.val),
                       rule_row.Comments, rule_row.Optimization_plan))

\* lines 124-137: the dictionary returned for the outcome of the chain
RuleResult(rule_row, result) ==
    IF result.exc = "unknown"
    THEN Ok(ResultDict(rule_row.Description, None, Str(TxtUnknownRule),
                       Str(<<>>)))
    ELSE IF result.exc # "" THEN result
    ELSE Ok(ResultDict(rule_row.Description,
                       IF Len(result.val) = 1 THEN result.val[1]
                       ELSE List(result.val),
                       rule_row.Comments, rule_row.Optimization_plan))

\* lines 108-137: a rule text that is no str cannot be searched
TopNRule(rule_row, sheet_data, target_col) ==
    IF rule_row.Rule.t # "str" THEN Raise("TypeError")
    ELSE RuleResult(rule_row, RuleKind(rule_row.Rule.s, sheet_data, target_col))

extract_rule_data(rule_row, data) ==
    IF rule_row.Sheet.t # "str" \/ rule_row.Sheet.s \notin DOMAIN data
    THEN Ok(ResultDict(rule_row.Description, None, Str(TxtNoSheet), Str(<<>>)))
    ELSE LET sheet_data == data[rule_row.Sheet.s]
             target_col == parse_result_column(rule_row.Result)
         IN  IF rule_row.Description = Str(InventoryEfficiency)
             THEN extract_kpi_rule(sheet_data, rule_row.Location,
                                   rule_row.Comments,
                                   rule_row.Optimization_plan)
             ELSE IF ~Truthy(rule_row.Rule)
             THEN DirectCell(rule_row, sheet_data)
             ELSE IF target_col.exc # "" THEN target_col
             ELSE IF ~Truthy(target_col.val)
             THEN Ok(ResultDict(rule_row.Description, None, Str(TxtBadResult),
                                Str(<<>>)))
             ELSE TopNRule(rule_row, sheet_data, target_col.val.s)

(***************************************************************************)
(* excel_analyzer_control.py: the cell locator.                            *)
(***************************************************************************)
\* The names bound at module level of excel_analyzer_control.py (its
\* import statements and classes).  A function's own "import re" binds re
\* in that function only.
ModuleGlobals ==
    {"Dict", "List", "Any", "Optional", "pd", "Path", "logging",
     "ExcelAnalyzerControl", "RuleValidator", "RuleManager", "DataManager",
     "ReportGenerator"}

\* Python's "$" matches at the end of the string and before a final "\n"
BeforeDollar(s) ==
    IF s # <<>> /\ s[Len(s)] = "\n" THEN {s, SubSeq(s, 1, Len(s) - 1)}
    ELSE {s}

RECURSIVE LetterRun(_)
LetterRun(s) ==
    IF s # <<>> /\ s[1] \in UpperSet THEN 1 + LetterRun(Tail(s))
    ELSE 0

\* [1-9][0-9]*
RowDigits(s) == s # <<>> /\ s[1] \in DigitSet \ {"0"} /\ AllDigits(s)

\* re.match of ^([A-Z]{min,max})([1-9][0-9]*)$ on pos: the groups, or no
\* match (a text ending in "\n" matches only without it, digits end the row)
MatchColRow(pos, minLetters, maxLetters) ==
    LET hits == {t \in BeforeDollar(pos) :
                    /\ LetterRun(t) >= minLetters
                    /\ LetterRun(t) <= maxLetters
                    /\ RowDigits(Tail0(t, LetterRun(t)))}
    IN  IF hits = {} THEN [matched |-> FALSE, col_str |-> <<>>, row_str |-> <<>>]
        ELSE LET t == CHOOSE t \in hits : TRUE
             IN  [matched |-> TRUE,
                  col_str |-> SubSeq(t, 1, LetterRun(t)),
                  row_str |-> Tail0(t, LetterRun(t))]

\* openpyxl.utils.cell._get_column_letter
RECURSIVE get_column_letter(_)
get_column_letter(col_idx) ==
    IF col_idx <= 0 THEN <<>>
    ELSE LET q == col_idx \div 26
             r == col_idx % 26
         IN  IF r = 0
             THEN get_column_letter(q - 1) \o <<UpperLetters[26]>>
             ELSE get_column_letter(q) \o <<UpperLetters[r]>>

\* the largest column openpyxl's tables hold ("ZZZ")
MaxColumn == 18278

\* the indices whose name has the given number of letters
ColumnsOfLength(n) ==
    CASE n = 1 -> 1..26
      [] n = 2 -> 27..702
      [] n = 3 -> 703..MaxColumn
      [] OTHER -> {}

\* openpyxl.utils.column_index_from_string: a lookup of str_col.upper() in
\* the table of get_column_letter(1..18278); ValueError on a missing key
column_index_from_string(str_col) ==
    LET key == UpperStr(str_col)
        found == {i \in ColumnsOfLength(Len(key)) : get_column_letter(i) = key}
    IN  IF found = {} THEN Raise("ValueError")
        ELSE Ok(CHOOSE i \in found : TRUE)

\* ExcelAnalyzerControl._parse_cell_position: (col, row) or ValueError
_parse_cell_position(pos) ==
    LET match == MatchColRow(pos, 1, Len(pos) + 1)
    IN  IF ~match.matched THEN Raise("ValueError")
        ELSE LET c == column_index_from_string(match.col_str)
             IN  IF c.exc # "" THEN c
                 ELSE Ok([col |-> c.val - 1,
                          row |-> ParseNumber(match.row_str).val - 1])

\* ExcelAnalyzerControl._is_valid_cell_position
_is_valid_cell_position(pos) == MatchColRow(pos, 1, 3).matched

(***************************************************************************)
(* excel_analyzer_control.py: DataManager.                                 *)
(***************************************************************************)
Results == <<"R","e","s","u","l","t","s">>

Missing == <<"N","o","p","e">>

\* DataManager.excel_file: sheet name -> the DataFrame pd.read_excel gives
\* (the header row consumed, data rows first)
ExcelFile ==
    Results :> << <<Num(95), Str(<<"P","1">>)>>,
                  <<NaN, Str(<<"1","0","%">>)>> >>

\* the workbook put in its place: the same sheet name, other cells
SwappedFile ==
    Results :> << <<Num(7), Str(<<"P","2">>)>>,
                  <<NaN, Str(<<"2","0","%">>)>> >>

ExcelFiles == ("first" :> ExcelFile) @@ ("second" :> SwappedFile)

\* f"{sheet_name}:{cell_position}"
CacheKey(sheet_name, cell_position) == sheet_name \o <<":">> \o cell_position

\* DataManager.get_sheet_data: the cache after the call and the DataFrame
\* returned (None when pd.read_excel raises for a sheet that is not there)
get_sheet_data(cache, sheet_name) ==
    IF sheet_name \in DOMAIN cache
    THEN [cache |-> cache, df |-> Ok(cache[sheet_name])]
    ELSE IF sheet_name \in DOMAIN ExcelFiles[excel_file]
    THEN [cache |-> (sheet_name :> ExcelFiles[excel_file][sheet_name]) @@ cache,
          df |-> Ok(ExcelFiles[excel_file][sheet_name])]
    ELSE [cache |-> cache, df |-> Raise("None")]

\* the try block of DataManager.get_cell_value after get_sheet_data: the
\* value read, or the exception raised
CellLookup(sheet_data, cell_position) ==
    IF "re" \notin ModuleGlobals THEN Raise("NameError")
    ELSE LET match == MatchColRow(cell_position, 1, Len(cell_position) + 1)
         IN  IF ~match.matched THEN Raise("ValueError")
             ELSE LET c == column_index_from_string(match.col_str)
                      col == c.val - 1
                      row == ParseNumber(match.row_str).val - 1
                  IN  IF c.exc # "" THEN c
                      ELSE IF row >= Len(sheet_data)
                              \/ col >= Len(sheet_data[1])
                      THEN Raise("ValueError")
                      ELSE Ok(sheet_data[row + 1][col + 1])

\* DataManager.get_cell_value
get_cell_value(sheet_name, cell_position) ==
    LET cache_key == CacheKey(sheet_name, cell_position)
        got == get_sheet_data(sheet_cache, sheet_name)
        value == CellLookup(got.df.val, cell_position)
    IN  IF cache_key \in DOMAIN value_cache
        THEN /\ call' = [op |-> "get_cell_value", sheet |-> sheet_name,
                         out |-> Ok(value_cache[cache_key])]
             /\ UNCHANGED <<sheet_cache, value_cache>>
        ELSE /\ sheet_cache' = got.cache
             /\ IF got.df.exc # "" \/ value.exc # ""
                THEN /\ call' = [op |-> "get_cell_value", sheet |-> sheet_name,
                                 out |-> Ok(None)]
                     /\ UNCHANGED value_cache
                ELSE /\ value_cache' = (cache_key :> value.val) @@ value_cache
                     /\ call' = [op |-> "get_cell_value", sheet |-> sheet_name,
                                 out |-> value]

(***************************************************************************)
(* The locator functions applied to bounded address strings.               *)
(***************************************************************************)
MaxAddrLen == 4

MaxColLetters == 4

AddrChars == {"A", "B", "Z", "a", "0", "1", "\n"}

\* every string of up to MaxAddrLen characters, and the addresses of row 1
\* in columns of up to MaxColLetters letters
Addresses ==
    UNION {[1..k -> AddrChars] : k \in 0..MaxAddrLen}
    \cup UNION {{l \o <<"1">> : l \in [1..k -> {"A", "Z"}]} : k \in 1..MaxColLetters}

NoCall == [op |-> "", out |-> Ok(0)]

AnalyzerIdle ==
    /\ rules = None
    /\ data_dict = None
    /\ results = None
    /\ ret = NoCall

TopNIdle ==
    /\ args = None
    /\ returned = NoCall

ManagerIdle ==
    /\ manager_rules = <<>>
    /\ rule_dependencies = <<>>
    /\ execution_order = <<>>
    /\ added = NoCall

\* ExcelAnalyzerControl.excel before load_excel
NoExcel == [kind |-> "None", rows |-> <<>>]

ControlIdle ==
    /\ excel = NoExcel
    /\ control_rules = <<>>
    /\ loaded = NoCall

\* no analyze_data call is running and none has returned
NoReply == [success |-> FALSE, message |-> "", results |-> None]

RpaIdle ==
    rpa = [phase |-> "idle", rule_file |-> None, data_file |-> None,
           output_file |-> None, reply |-> NoReply, formatted |-> None]

InitLocate ==
    /\ position \in Addresses
    /\ call = NoCall
    /\ sheet_cache = <<>>
    /\ value_cache = <<>>
    /\ excel_file = "first"
    /\ AnalyzerIdle
    /\ TopNIdle
    /\ ManagerIdle
    /\ ControlIdle
    /\ RpaIdle

CallIsValid ==
    /\ call' = [op |-> "_is_valid_cell_position",
                out |-> Ok(_is_valid_cell_position(position))]
    /\ UNCHANGED <<position, sheet_cache, value_cache, excel_file>>
    /\ UNCHANGED outside_locate

CallParse ==
    /\ call' = [op |-> "_parse_cell_position",
                out |-> _parse_cell_position(position)]
    /\ UNCHANGED <<position, sheet_cache, value_cache, excel_file>>
    /\ UNCHANGED outside_locate

CallColLetter ==
    /\ IsAlpha(position)
    /\ call' = [op |-> "col_letter_to_index",
                out |-> Ok(col_letter_to_index(position))]
    /\ UNCHANGED <<position, sheet_cache, value_cache, excel_file>>
    /\ UNCHANGED outside_locate

CallGetCellValue ==
    /\ \E sheet_name \in {Results, Missing} :
          get_cell_value(sheet_name, position)
    /\ UNCHANGED <<position, excel_file>>
    /\ UNCHANGED outside_locate

NextLocate ==
    \/ CallIsValid
    \/ CallParse
    \/ CallColLetter
    \/ CallGetCellValue

SpecLocate == InitLocate /\ [][NextLocate]_vars

(***************************************************************************)
(* Claims about the locator.                                               *)
(***************************************************************************)
\* spreadsheet column naming, zero-based: 0 is A, 25 is Z, 26 is AA
RECURSIVE C2_ColumnName(_)
C2_ColumnName(i) ==
    IF i < 26 THEN <<UpperLetters[i + 1]>>
    ELSE C2_ColumnName((i \div 26) - 1) \o <<UpperLetters[(i % 26) + 1]>>

\* the number of column names of at most k letters: 26, 702, 18278
RECURSIVE C2_NamesUpTo(_)
C2_NamesUpTo(k) == IF k = 0 THEN 0 ELSE 26 * (C2_NamesUpTo(k - 1) + 1)

\* the zero-based index of a column name: the inverse of C2_ColumnName
C2_IndexOfName(name) ==
    CHOOSE i \in 0..(C2_NamesUpTo(Len(name)) - 1) : C2_ColumnName(i) = name

\* C2: for every address matching [A-Z]{1,3}[1-9][0-9]*,
\* _parse_cell_position returns the zero-based column whose spreadsheet
\* name is the address's column letters (A1 -> (0,0), Z1 -> (25,0),
\* AA1 -> (26,0), AB10 -> (27,9)) and the row number minus 1, and
\* col_letter_to_index gives the same column index for those letters.
C2_LocateInvertsColumnNaming ==
    /\ (call.op = "_parse_cell_position" /\ _is_valid_cell_position(position))
       => LET m == MatchColRow(position, 1, 3)
          IN  /\ call.out.exc = ""
              /\ call.out.val.col >= 0
              /\ C2_ColumnName(call.out.val.col) = m.col_str
              /\ call.out.val.col = col_letter_to_index(m.col_str)
              /\ call.out.val.row >= 0
              /\ NatStr(call.out.val.row + 1) = m.row_str
              /\ (position = <<"A", "1">>
                    => call.out.val = [col |-> 0, row |-> 0])
              /\ (position = <<"Z", "1">>
                    => call.out.val = [col |-> 25, row |-> 0])
              /\ (position = <<"A", "A", "1">>
                    => call.out.val = [col |-> 26, row |-> 0])
              /\ (position = <<"A", "B", "1", "0">>
                    => call.out.val = [col |-> 27, row |-> 9])
    /\ (call.op = "col_letter_to_index" /\ Len(position) <= 3
            /\ \A i \in DOMAIN position : position[i] \in UpperSet)
       => /\ call.out.val >= 0
          /\ C2_ColumnName(call.out.val) = position

\* C2 witness: AB10 has been parsed to column 27, row 9
C2_Witness ==
    /\ call.op = "_parse_cell_position"
    /\ position = <<"A", "B", "1", "0">>
    /\ call.out = Ok([col |-> 27, row |-> 9])

\* C4: _parse_cell_position fails exactly on the strings that do not match
\* ^[A-Z]{1,3}[1-9][0-9]*$, and DataManager.get_cell_value accepts the
\* same addresses as the validator: for a valid address inside the sheet
\* it returns the cell there.
C4_ValidatorAndParsersAgree ==
    /\ call.op = "_parse_cell_position"
       => (call.out.exc = "" <=> _is_valid_cell_position(position))
    /\ (call.op = "get_cell_value" /\ call.sheet = Results)
       => /\ (~_is_valid_cell_position(position) => call.out.val = None)
          /\ (position = <<"A", "1">> => call.out.val = Num(95))
          /\ (position = <<"B", "1">> => call.out.val = Str(<<"P", "1">>))

(***************************************************************************)
(* The functions of rule_extractor.py applied to bounded inputs.           *)
(***************************************************************************)
Pct(digits) == Str(digits \o <<"%">>)

\* the sheet of the KPI strategy: a header row and one data row holding a
\* percentage text, a text, a number, an empty cell and the texts around
\* the class boundaries 80 and 120
KpiSheet ==
    << <<Str(<<"h">>), Str(<<"h">>), Str(<<"h">>), Str(<<"h">>),
         Str(<<"h">>), Str(<<"h">>), Str(<<"h">>), Str(<<"h">>)>>,
       <<Pct(<<"9", "5">>), Str(<<"a", "b", "c">>), Num(95), NaN,
         Pct(<<"7", "9">>), Pct(<<"8", "0">>), Pct(<<"1", "2", "0">>),
         Pct(<<"1", "2", "1">>)>> >>

KpiLocations ==
    {Str(<<c, "2">>) : c \in {"A", "B", "C", "D", "E", "F", "G", "H", "Z"}}
    \cup {Str(<<"A", "9">>), Str(<<"A", "B", "2">>), Str(<<"A">>), Str(<<>>), NaN}

KpiComments ==
    {Str(<<"l", "o", "w", "<", "b", "r", ">", " ", "o", "k", "<", "b", "r", ">",
           "h", "i">>),
     Str(<<"l", "o", "w">>), NaN}

KpiArgs ==
    {[fn |-> "extract_kpi_rule", sheet_data |-> KpiSheet, location |-> l,
      comments |-> c, optimization_plan |-> p] :
        l \in KpiLocations, c \in KpiComments,
        p \in {Str(<<"p">>), Str(<<>>)}}

\* the largest number of data rows of a Top-N sheet
MaxRows == 4

\* a data row: the key in column A, the value in column B
TopNRowKinds ==
    {[v |-> Pct(<<"5">>), keyed |-> TRUE], [v |-> Pct(<<"1", "0">>), keyed |-> TRUE],
     [v |-> Str(<<"a", "b", "c">>), keyed |-> TRUE], [v |-> Num(7), keyed |-> TRUE],
     [v |-> Pct(<<"5">>), keyed |-> FALSE], [v |-> Pct(<<"1", "0">>), keyed |-> FALSE]}

\* the key of data row i: "P<i>", or an empty text
KeyOfRow(i, keyed) == IF keyed THEN Str(<<"P">> \o NatStr(i)) ELSE Str(<<>>)

TopNSheet(kinds) ==
    << <<Str(<<"k">>), Str(<<"v">>)>> >>
    \o [i \in DOMAIN kinds |-> <<KeyOfRow(i, kinds[i].keyed), kinds[i].v>>]

TopNSheets ==
    {TopNSheet(kinds) : kinds \in UNION {[1..k -> TopNRowKinds] : k \in 0..MaxRows}}

TopNArgs ==
    {[fn |-> "extract_top_n_values", sheet_data |-> sh, value_col |-> <<"B">>,
      target_col |-> t, n |-> n, reverse |-> r] :
        sh \in TopNSheets, t \in {<<"A">>, <<"C">>}, n \in {1, 3, 5},
        r \in BOOLEAN}

\* the width of the sheets of the rule dispatcher: columns A to AS
WideColumns == 45

WideRow(E, AB, AO, AS) ==
    [c \in 1..WideColumns |->
        CASE c = 5 -> E
          [] c = 28 -> AB
          [] c = 41 -> AO
          [] c = 45 -> AS
          [] OTHER -> NaN]

\* Results: column AS = [10%, 5%, 50%, 2%, 30%, 1%], column E = [P1..P6]
ResultsSheet ==
    LET pcts == << <<"1", "0">>, <<"5">>, <<"5", "0">>, <<"2">>, <<"3", "0">>,
                   <<"1">> >>
    IN  << WideRow(Str(<<"P", "N">>), NaN, NaN, Str(<<"r", "i", "s", "k">>)) >>
        \o [i \in 1..6 |->
               WideRow(Str(<<"P">> \o NatStr(i)), NaN, Num(i), Pct(pcts[i]))]

\* Data: ten rows, AB10 = "x"
DataSheet ==
    [r \in 1..10 |->
        WideRow(Str(<<"e">> \o NatStr(r)),
                IF r = 10 THEN Str(<<"x">>) ELSE NaN, NaN, Pct(NatStr(r)))]

Data == <<"D", "a", "t", "a">>

\* Sparse: two data rows, AS = [7%, 9%], E = ["K1", ""]: the row with the
\* larger value has an empty key
SparseSheet ==
    << WideRow(Str(<<"P", "N">>), NaN, NaN, Str(<<"r", "i", "s", "k">>)),
       WideRow(Str(<<"K", "1">>), NaN, NaN, Pct(<<"7">>)),
       WideRow(Str(<<>>), NaN, NaN, Pct(<<"9">>)) >>

Sparse == <<"S", "p", "a", "r", "s", "e">>

\* the data dictionary the rules are evaluated against
Workbook ==
    (Results :> ResultsSheet) @@ (Data :> DataSheet) @@ (Sparse :> SparseSheet)

RuleSheets == {Str(Results), Str(Data), Str(Sparse), Str(Missing), NaN}

RuleDescriptions ==
    {Str(InventoryEfficiency), Str(LowerStr(InventoryEfficiency)),
     Str(UpperStr(InventoryEfficiency)), Str(<<"K", "P", "I">>)}

RuleLocations ==
    {Str(<<"E", "2">>), Str(<<"A", "S", "2">>), Str(<<"A", "B", "1", "0">>),
     Str(<<"E", "9">>), NaN}

RuleTexts ==
    {Str(<<>>), NaN, Str(TxtLowest5), Str(TxtHighest5),
     Str(<<"A", "S", "u5217">> \o TxtLargest3), Str(TxtMostDays3), Str(TxtAO3),
     Str(<<"A", "S", "u5217">> \o TxtLargest),
     Str(<<"s", "u", "m">>)}

RuleResults ==
    {Str(<<"P", "N", "(", "$", "E", "*", ")">>), Str(<<"E">>), NaN}

RuleRow(sheet, description, location, rule, result) ==
    [Sheet |-> sheet, Description |-> description, Location |-> location,
     Rule |-> rule, Result |-> result, Comments |-> Str(<<"c">>),
     Optimization_plan |-> Str(<<"o">>)]

RuleArgs ==
    {[fn |-> "extract_rule_data", rule_row |-> RuleRow(sh, d, l, r, res)] :
        sh \in RuleSheets, d \in RuleDescriptions, l \in RuleLocations,
        r \in RuleTexts, res \in RuleResults}

LocateIdle ==
    /\ position = <<>>
    /\ call = NoCall
    /\ sheet_cache = <<>>
    /\ value_cache = <<>>
    /\ excel_file = "first"

InitExtract ==
    /\ args \in KpiArgs \cup TopNArgs \cup RuleArgs
    /\ returned = NoCall
    /\ AnalyzerIdle
    /\ LocateIdle
    /\ ManagerIdle
    /\ ControlIdle
    /\ RpaIdle

CallKpiRule ==
    /\ args.fn = "extract_kpi_rule"
    /\ returned' = [op |-> args.fn,
                    out |-> extract_kpi_rule(args.sheet_data, args.location,
                                             args.comments,
                                             args.optimization_plan)]
    /\ UNCHANGED <<args, outside_extract>>

CallTopN ==
    /\ args.fn = "extract_top_n_values"
    /\ returned' = [op |-> args.fn,
                    out |-> extract_top_n_values(args.sheet_data, args.value_col,
                                                 args.target_col, args.n,
                                                 args.reverse)]
    /\ UNCHANGED <<args, outside_extract>>

CallRuleData ==
    /\ args.fn = "extract_rule_data"
    /\ returned' = [op |-> args.fn,
                    out |-> extract_rule_data(args.rule_row, Workbook)]
    /\ UNCHANGED <<args, outside_extract>>

NextExtract ==
    \/ CallKpiRule
    \/ CallTopN
    \/ CallRuleData

SpecExtract == InitExtract /\ [][NextExtract]_vars

(***************************************************************************)
(* Claims about the dispatcher and its strategies.                         *)
(***************************************************************************)
\* the sheet a rule row names exists in the data
SheetLoaded(rule_row, data) ==
    rule_row.Sheet.t = "str" /\ rule_row.Sheet.s \in DOMAIN data

\* C3: a direct-cell rule (empty Rule field, no KPI description) whose
\* location is a valid address with a 1-3 letter column inside the sheet
\* returns the content of the cell that _parse_cell_position locates.
C3_DirectCellReadsLocatedCell ==
    (/\ returned.op = "extract_rule_data"
     /\ SheetLoaded(args.rule_row, Workbook)
     /\ args.rule_row.Description = Str(<<"K", "P", "I">>)
     /\ args.rule_row.Rule = Str(<<>>)
     /\ args.rule_row.Location.t = "str"
     /\ _is_valid_cell_position(args.rule_row.Location.s))
    => LET at == _parse_cell_position(args.rule_row.Location.s).val
           sheet_data == Workbook[args.rule_row.Sheet.s]
       IN  (at.row < Len(sheet_data) /\ at.col < Len(sheet_data[1]))
           => /\ returned.out.exc = ""
              /\ returned.out.val.result = sheet_data[at.row + 1][at.col + 1]

\* C5: descriptions that differ only in letter case are dispatched to the
\* same strategy: every spelling of "Inventory efficiency" gets the outcome
\* of the KPI strategy.
C5_DispatchIgnoresCase ==
    (/\ returned.op = "extract_rule_data"
     /\ SheetLoaded(args.rule_row, Workbook)
     /\ args.rule_row.Description.t = "str"
     /\ LowerStr(args.rule_row.Description.s) = LowerStr(InventoryEfficiency)
     /\ args.rule_row.Location.t = "str")
    => returned.out = extract_kpi_rule(Workbook[args.rule_row.Sheet.s],
                                       args.rule_row.Location,
                                       args.rule_row.Comments,
                                       args.rule_row.Optimization_plan)

\* the rule text names none of the rule kinds of the if/elif chain
C6_NoKindMatches(rule_text) ==
    /\ ~Contains(rule_text, TxtLowest5)
    /\ ~Contains(rule_text, TxtHighest5)
    /\ ~Contains(rule_text, TxtLargest3)
    /\ ~Contains(rule_text, TxtMostDays3)
    /\ ~Contains(rule_text, TxtLargest)

\* C6: when neither a description keyword nor a known rule kind matches,
\* the rule fails with a result that carries the unrecognized rule text.
C6_UnsupportedCarriesType ==
    (/\ returned.op = "extract_rule_data"
     /\ SheetLoaded(args.rule_row, Workbook)
     /\ args.rule_row.Description = Str(<<"K", "P", "I">>)
     /\ args.rule_row.Rule.t = "str"
     /\ args.rule_row.Rule.s # <<>>
     /\ C6_NoKindMatches(args.rule_row.Rule.s)
     /\ parse_result_column(args.rule_row.Result).exc = ""
     /\ parse_result_column(args.rule_row.Result).val # None)
    => /\ returned.out.exc = ""
       /\ returned.out.val.result = None
       /\ \/ Contains(returned.out.val.comments.s, args.rule_row.Rule.s)
          \/ Contains(returned.out.val.optimization_plan.s, args.rule_row.Rule.s)

\* C7: extract_kpi_rule lets no exception out: for every cell content and
\* every location text it returns a classified result or the sentinel.
C7_KpiNeverRaises ==
    (returned.op = "extract_kpi_rule" /\ args.location.t = "str"
        /\ args.comments.t = "str")
    => /\ returned.out.exc = ""
       /\ \/ returned.out.val.result.t = "str"
          \/ /\ returned.out.val.result = None
             /\ returned.out.val.comments = Str(TxtInvalidData)

\* the data rows of the Top-N call whose value cell is a parseable text
C8_Parsable ==
    {i \in 1..(Len(args.sheet_data) - 1) :
        LET cell == PyIndex(args.sheet_data[i + 1],
                            C2_IndexOfName(args.value_col))
        IN  /\ cell.exc = ""
            /\ cell.val.t = "str"
            /\ ParseNumber(Strip(cell.val.s, {"%"})).exc = ""}

C8_Value(i) ==
    ParseNumber(Strip(args.sheet_data[i + 1][C2_IndexOfName(args.value_col) + 1].s,
                      {"%"})).val

\* the key cell of data row i, when there is one and it is not empty
C8_Key(i) == PyIndex(args.sheet_data[i + 1], C2_IndexOfName(args.target_col))

C8_Found(i) == C8_Key(i).exc = "" /\ Truthy(C8_Key(i).val)

\* value a may stand before value b in the direction of the call
C8_InOrder(a, b) == IF args.reverse THEN a >= b ELSE a <= b

\* the data row a returned key was read from (keys are one per row here)
C8_RowOf(key) ==
    CHOOSE i \in 1..(Len(args.sheet_data) - 1) : C8_Found(i) /\ C8_Key(i).val = key

C8_Min(a, b) == IF a < b THEN a ELSE b

\* C8: Top-N returns the keys found in the rows of the first N values in
\* sorted order (ascending for the shortage rule, descending otherwise), in
\* that order; the AS column [10%, 5%, 50%, 2%, 30%, 1%] with keys P1..P6
\* gives P6, P4, P2, P1, P5 for the ascending N=5 rule.
C8_TopNKeysFollowSortedValues ==
    /\ (returned.op = "extract_top_n_values" /\ returned.out.exc = "")
       => LET res == returned.out.val
              k == C8_Min(args.n, Cardinality(C8_Parsable))
          IN  \E S \in SUBSET C8_Parsable :
                 /\ Cardinality(S) = k
                 /\ \A a \in S, b \in C8_Parsable \ S :
                        C8_InOrder(C8_Value(a), C8_Value(b))
                 /\ \A j \in DOMAIN res :
                        \E i \in S : C8_Found(i) /\ C8_Key(i).val = res[j]
                 /\ {C8_RowOf(res[j]) : j \in DOMAIN res} = {i \in S : C8_Found(i)}
                 /\ Len(res) = Cardinality({i \in S : C8_Found(i)})
                 /\ \A j \in 1..(Len(res) - 1) :
                        C8_InOrder(C8_Value(C8_RowOf(res[j])),
                                   C8_Value(C8_RowOf(res[j + 1])))
    /\ (/\ returned.op = "extract_rule_data"
        /\ args.rule_row.Sheet = Str(Results)
        /\ args.rule_row.Description = Str(<<"K", "P", "I">>)
        /\ args.rule_row.Result = Str(<<"P", "N", "(", "$", "E", "*", ")">>))
       => /\ args.rule_row.Rule = Str(TxtLowest5)
             => returned.out =
                  Ok(ResultDict(args.rule_row.Description,
                                List(<<Str(<<"P", "6">>), Str(<<"P", "4">>),
                                       Str(<<"P", "2">>), Str(<<"P", "1">>),
                                       Str(<<"P", "5">>)>>),
                                args.rule_row.Comments,
                                args.rule_row.Optimization_plan))
          /\ args.rule_row.Rule = Str(TxtHighest5)
             => returned.out =
                  Ok(ResultDict(args.rule_row.Description,
                                List(<<Str(<<"P", "3">>), Str(<<"P", "5">>),
                                       Str(<<"P", "1">>), Str(<<"P", "2">>),
                                       Str(<<"P", "4">>)>>),
                                args.rule_row.Comments,
                                args.rule_row.Optimization_plan))

\* C8 witness: the shortage rule has returned P6, P4, P2, P1, P5
C8_Witness ==
    /\ returned.op = "extract_rule_data"
    /\ args.rule_row.Rule = Str(TxtLowest5)
    /\ returned.out.exc = ""
    /\ returned.out.val.result =
          List(<<Str(<<"P", "6">>), Str(<<"P", "4">>), Str(<<"P", "2">>),
                 Str(<<"P", "1">>), Str(<<"P", "5">>)>>)

\* C9: in both sort directions rows with equal values are returned in
\* row order: the earlier row first.
C9_TiesKeepRowOrder ==
    (returned.op = "extract_top_n_values" /\ returned.out.exc = "")
    => LET res == returned.out.val
       IN  \A j, k \in DOMAIN res :
              (j < k /\ C8_Value(C8_RowOf(res[j])) = C8_Value(C8_RowOf(res[k])))
              => C8_RowOf(res[j]) < C8_RowOf(res[k])

\* C10: with N at least the number of data rows, Top-N returns one item
\* per data row, sorted in the direction of the call, and does not raise.
C10_FullColumnWhenNIsLarge ==
    (/\ returned.op = "extract_top_n_values"
     /\ args.target_col = <<"A">>
     /\ args.n >= Len(args.sheet_data) - 1)
    => /\ returned.out.exc = ""
       /\ Len(returned.out.val) = Len(args.sheet_data) - 1
       /\ \A j \in 1..(Len(returned.out.val) - 1) :
              C8_InOrder(C8_Value(C8_RowOf(returned.out.val[j])),
                         C8_Value(C8_RowOf(returned.out.val[j + 1])))
(***************************************************************************)
(* main.py: ExcelAnalyzer.  The files the loaders are pointed at are given *)
(* as what pandas reads from them.                                         *)
(***************************************************************************)
Dict(items) == [t |-> "dict", s |-> <<>>, n |-> 0, items |-> items]

\* "处理失败: "
TxtFailed == <<"u5904", "u7406", "u5931", "u8D25", ":", " ">>

\* the largest number of rows of a rule table
MaxRules == 2

KpiComment ==
    Str(<<"l", "o", "w", "<", "b", "r", ">", "o", "k", "<", "b", "r", ">",
          "h", "i">>)

\* the rows df.to_dict('records') gives for a rule table: a KPI rule on a
\* percentage text, a KPI rule on a numeric cell, and a largest-value rule
\* on the second sheet of the workbook
RuleRecords ==
    {[Sheet |-> Str(Results), Description |-> Str(InventoryEfficiency),
      Location |-> Str(<<"A", "2">>), Rule |-> NaN, Result |-> NaN,
      Comments |-> KpiComment, Optimization_plan |-> Str(<<"p">>)],
     [Sheet |-> Str(Results), Description |-> Str(InventoryEfficiency),
      Location |-> Str(<<"B", "2">>), Rule |-> NaN, Result |-> NaN,
      Comments |-> KpiComment, Optimization_plan |-> Str(<<"p">>)],
     [Sheet |-> Str(Data), Description |-> Str(<<"t", "o", "p">>),
      Location |-> NaN, Rule |-> Str(<<"A", "u5217">> \o TxtLargest),
      Result |-> Str(<<"P", "N", "(", "$", "A", "*", ")">>),
      Comments |-> Str(<<"c">>), Optimization_plan |-> Str(<<"o">>)]}

\* a rule table file: unreadable, or the records of its first sheet
RuleFiles ==
    {[readable |-> FALSE, records |-> <<>>]}
    \cup {[readable |-> TRUE, records |-> recs] :
            recs \in UNION {[1..k -> RuleRecords] : k \in 0..MaxRules}}

\* a sheet as load_excel_data stores it: the column names, then the rows
SmallSheet ==
    << <<Str(<<"r", "a", "t", "e">>), Str(<<"q", "t", "y">>)>>,
       <<Pct(<<"9", "5">>), Num(95)>>,
       <<Pct(<<"1", "0">>), Num(3)>> >>

\* a data file: unreadable as a whole, or its sheets in workbook order,
\* each one readable or not
DataFiles ==
    {[readable |-> FALSE, sheet_names |-> <<>>, bad |-> {}],
     [readable |-> TRUE, sheet_names |-> <<Results>>, bad |-> {}],
     [readable |-> TRUE, sheet_names |-> <<Results, Data>>, bad |-> {}],
     [readable |-> TRUE, sheet_names |-> <<Results, Data>>, bad |-> {Data}],
     [readable |-> TRUE, sheet_names |-> <<Results, Data>>, bad |-> {Results}]}

\* the dictionary after the loop over the first k sheets of a data file
RECURSIVE SheetsRead(_, _)
SheetsRead(file, k) ==
    IF k = 0 THEN <<>>
    ELSE (file.sheet_names[k] :> SmallSheet) @@ SheetsRead(file, k - 1)

\* the sheets read before the first one pd.read_excel raises for
SheetsBeforeFailure(file) ==
    LET failing == {k \in DOMAIN file.sheet_names : file.sheet_names[k] \in file.bad}
    IN  IF failing = {} THEN Len(file.sheet_names)
        ELSE (CHOOSE k \in failing : \A j \in failing : k <= j) - 1

load_excel_data(file_path) ==
    /\ IF ~file_path.readable
       THEN /\ ret' = [op |-> "load_excel_data", out |-> Ok(FALSE)]
            /\ UNCHANGED data_dict
       ELSE /\ data_dict' =
                  Dict(SheetsRead(file_path, SheetsBeforeFailure(file_path)))
            /\ ret' = [op |-> "load_excel_data",
                       out |-> Ok(file_path.bad = {})]
    /\ UNCHANGED <<rules, results, outside_analyzer>>

\* a load_rule_table that forgets the results of the earlier run
load_rule_table_resetting(file_path) ==
    /\ IF ~file_path.readable
       THEN /\ ret' = [op |-> "load_rule_table", out |-> Ok(FALSE)]
            /\ UNCHANGED rules
       ELSE /\ rules' = List(file_path.records)
            /\ ret' = [op |-> "load_rule_table", out |-> Ok(TRUE)]
    /\ results' = None
    /\ UNCHANGED <<data_dict, outside_analyzer>>

load_rule_table(file_path) ==
    /\ IF ~file_path.readable
       THEN /\ ret' = [op |-> "load_rule_table", out |-> Ok(FALSE)]
            /\ UNCHANGED rules
       ELSE /\ rules' = List(file_path.records)
            /\ ret' = [op |-> "load_rule_table", out |-> Ok(TRUE)]
    /\ UNCHANGED <<data_dict, results, outside_analyzer>>

\* the except branch of process_rules; the message of the exception is
\* represented by the exception's name
FailedResult(rule, exc) ==
    ResultDict(rule.Description, None, Str(TxtFailed \o <<exc>>), Str(<<>>))

\* the result the loop of process_rules appends for a rule, given the
\* outcome of extract_rule_data for it
ResultOf(rule, out) ==
    IF out.exc = "" THEN out.val ELSE FailedResult(rule, out.exc)

\* the body of the loop of process_rules for one rule
ProcessRule(rule, data) == ResultOf(rule, extract_rule_data(rule, data))

\* process_rules with the except branch dropping the rule instead of
\* recording a failed result
process_rules_skipping ==
    /\ IF ~Truthy(rules) \/ ~Truthy(data_dict)
       THEN /\ ret' = [op |-> "process_rules", out |-> Ok(FALSE)]
            /\ UNCHANGED results
       ELSE /\ results' =
                  List(SelectSeq([i \in DOMAIN rules.items |->
                                     extract_rule_data(rules.items[i],
                                                       data_dict.items)],
                                 LAMBDA out : out.exc = ""))
            /\ ret' = [op |-> "process_rules", out |-> Ok(TRUE)]
    /\ UNCHANGED <<rules, data_dict, outside_analyzer>>

process_rules ==
    /\ IF ~Truthy(rules) \/ ~Truthy(data_dict)
       THEN /\ ret' = [op |-> "process_rules", out |-> Ok(FALSE)]
            /\ UNCHANGED results
       ELSE /\ results' =
                  List([i \in DOMAIN rules.items |->
                           ProcessRule(rules.items[i], data_dict.items)])
            /\ ret' = [op |-> "process_rules", out |-> Ok(TRUE)]
    /\ UNCHANGED <<rules, data_dict, outside_analyzer>>

get_results ==
    /\ ret' = [op |-> "get_results",
               out |-> Ok(IF Truthy(results) THEN results ELSE List(<<>>))]
    /\ UNCHANGED <<rules, data_dict, results, outside_analyzer>>

\* the state after ExcelAnalyzer()
Init ==
    /\ rules = None
    /\ data_dict = None
    /\ results = None
    /\ ret = NoCall
    /\ LocateIdle
    /\ TopNIdle
    /\ ManagerIdle
    /\ ControlIdle
    /\ RpaIdle

LoadExcelData == \E file_path \in DataFiles : load_excel_data(file_path)

LoadRuleTable == \E file_path \in RuleFiles : load_rule_table(file_path)

Next ==
    \/ LoadExcelData
    \/ LoadRuleTable
    \/ process_rules
    \/ get_results

Spec == Init /\ [][Next]_vars

(***************************************************************************)
(* Claims about the batch loop.                                            *)
(***************************************************************************)
\* the result process_rules records for a rule whose evaluation raised
C1_IsFailedResult(result, rule) ==
    /\ result.description = rule.Description
    /\ result.result = None
    /\ result.comments.t = "str"
    /\ SubSeq(result.comments.s, 1, Len(TxtFailed)) = TxtFailed
    /\ result.optimization_plan = Str(<<>>)

\* C1: process_rules refuses only an empty or missing rule list or data
\* dictionary; otherwise it returns one result per rule, in rule-table
\* order: the value extract_rule_data returns for the rule or, when
\* extract_rule_data raises, a failed result for that rule, and the rules
\* after a failing one are still evaluated.
C1_OneResultPerRule ==
    ret.op = "process_rules"
    => /\ ret.out.val = FALSE <=> (~Truthy(rules) \/ ~Truthy(data_dict))
       /\ ret.out.val = TRUE
          => /\ results.t = "list"
             /\ Len(results.items) = Len(rules.items)
             /\ \A i \in DOMAIN rules.items :
                   LET out == extract_rule_data(rules.items[i], data_dict.items)
                   IN  IF out.exc = "" THEN results.items[i] = out.val
                       ELSE C1_IsFailedResult(results.items[i], rules.items[i])

\* C1 witness: a batch whose first rule raised and whose second rule was
\* evaluated has returned both results
C1_Witness ==
    /\ ret.op = "process_rules"
    /\ ret.out.val = TRUE
    /\ Len(rules.items) = 2
    /\ Len(results.items) = 2
    /\ extract_rule_data(rules.items[1], data_dict.items).exc # ""
    /\ C1_IsFailedResult(results.items[1], rules.items[1])
    /\ extract_rule_data(rules.items[2], data_dict.items).exc = ""
    /\ results.items[2].result # None

(***************************************************************************)
(* excel_analyzer_control.py: RuleValidator.validate_rule and RuleManager. *)
(* A rule_info dict is a record of its three fields with the set of the   *)
(* keys it really has; the message of a (bool, str) reply is represented   *)
(* by its kind.                                                            *)
(***************************************************************************)
Reply(ok, msg) == [ok |-> ok, msg |-> msg]

\* compile(logic, '<string>', 'eval') for the texts of this model, which
\* are made of the names A, B and the operator +: a SyntaxError exactly
\* when the text is empty or ends with the operator
Compiles(logic) == logic # <<>> /\ logic[Len(logic)] # "+"

validate_rule(rule) ==
    IF {"sheet_name", "cell_position", "logic"} \ rule.keys # {}
    THEN Reply(FALSE, "missing fields")
    ELSE IF rule.sheet_name.t # "str" THEN Reply(FALSE, "sheet_name is no str")
    ELSE IF rule.cell_position.t # "str"
    THEN Reply(FALSE, "cell_position is no str")
    ELSE IF rule.logic.t # "str" THEN Reply(FALSE, "logic is no str")
    ELSE IF Truthy(rule.logic) /\ ~Compiles(rule.logic.s)
    THEN Reply(FALSE, "syntax error")
    ELSE Reply(TRUE, "")

\* the keys of RuleManager.rules, in insertion order
RuleNamesOf(stored) == [i \in DOMAIN stored |-> stored[i].name]

\* an _extract_dependencies that looks for every rule name there is, stored
\* or not
_extract_dependencies_any_name(stored, logic) ==
    IF logic = <<>> THEN <<>>
    ELSE SelectSeq(<< <<"A">>, <<"B">>, <<"A", "B">> >>,
                   LAMBDA rule_name : Contains(logic, rule_name))

\* the rule names that occur in the logic text, in the order of self.rules
_extract_dependencies(stored, logic) ==
    IF logic = <<>> THEN <<>>
    ELSE SelectSeq(RuleNamesOf(stored), LAMBDA rule_name : Contains(logic, rule_name))

\* dfs of _has_circular_dependency: visited holds the rules on the current
\* path (each is removed again when its loop ends)
RECURSIVE dfs(_, _, _)
dfs(deps, rule, visited) ==
    IF rule \in visited THEN TRUE
    ELSE IF rule \notin DOMAIN deps THEN FALSE
    ELSE \E i \in DOMAIN deps[rule] :
            dfs(deps, deps[rule][i], visited \cup {rule})

\* temp_deps, the copy that holds the new rule's dependencies, is built
\* but dfs reads self.rule_dependencies
_has_circular_dependency(deps, new_rule, dependencies) == dfs(deps, new_rule, {})

\* the state of the topological sort: the order so far, the visited set
\* and the exception raised, if any
SortState(order, visited, exc) == [order |-> order, visited |-> visited, exc |-> exc]

\* lines 495-497 of visit: the rule is done once its dependencies are
VisitDone(after, rule) ==
    IF after.exc # "" THEN after
    ELSE SortState(Append(after.order, rule), after.visited \cup {rule}, "")

RECURSIVE visit(_, _, _, _)
RECURSIVE VisitEach(_, _, _, _, _)
visit(deps, rule, st, temp) ==
    IF st.exc # "" THEN st
    ELSE IF rule \in temp THEN SortState(st.order, st.visited, "ValueError")
    ELSE IF rule \in st.visited THEN st
    ELSE VisitDone(VisitEach(deps,
                             IF rule \in DOMAIN deps THEN deps[rule] ELSE <<>>,
                             1, st, temp \cup {rule}),
                   rule)

\* the for loops of lines 493-494 and 500-502 from element i on
VisitEach(deps, names, i, st, temp) ==
    IF i > Len(names) THEN st
    ELSE VisitEach(deps, names, i + 1, visit(deps, names[i], st, temp), temp)

\* an _update_execution_order that does not reset the order first
_update_execution_order_appending(stored, deps) ==
    VisitEach(deps, RuleNamesOf(stored), 1, SortState(execution_order, {}, ""), {})

_update_execution_order(stored, deps) ==
    VisitEach(deps, RuleNamesOf(stored), 1, SortState(<<>>, {}, ""), {})

\* self.rules[rule_name] = rule_info
StoreRule(stored, rule_name, rule_info) ==
    IF \E i \in DOMAIN stored : stored[i].name = rule_name
    THEN [i \in DOMAIN stored |->
            IF stored[i].name = rule_name
            THEN [name |-> rule_name, info |-> rule_info] ELSE stored[i]]
    ELSE Append(stored, [name |-> rule_name, info |-> rule_info])

AddRuleCall(rule_name, rule_info, out) ==
    [op |-> "add_rule", rule_name |-> rule_name, rule_info |-> rule_info,
     out |-> out]

\* lines 433-441: store the rule and its dependencies, sort again
AddRuleStore(rule_name, rule_info, dependencies) ==
    /\ manager_rules' = StoreRule(manager_rules, rule_name, rule_info)
    /\ rule_dependencies' = (rule_name :> dependencies) @@ rule_dependencies
    /\ execution_order' =
          _update_execution_order(manager_rules', rule_dependencies').order
    /\ added' =
          AddRuleCall(rule_name, rule_info,
             IF _update_execution_order(manager_rules', rule_dependencies').exc = ""
             THEN Ok(Reply(TRUE, ""))
             ELSE Raise("ValueError"))

AddRuleRejected(rule_name, rule_info, reply) ==
    /\ added' = AddRuleCall(rule_name, rule_info, Ok(reply))
    /\ UNCHANGED <<manager_rules, rule_dependencies, execution_order>>

\* lines 421-441: add_rule after the check of the name
AddRuleChecked(rule_name, rule_info) ==
    IF ~validate_rule(rule_info).ok
    THEN AddRuleRejected(rule_name, rule_info, validate_rule(rule_info))
    ELSE IF _has_circular_dependency(
                rule_dependencies, rule_name,
                _extract_dependencies(manager_rules, rule_info.logic.s))
    THEN AddRuleRejected(rule_name, rule_info,
                         Reply(FALSE, "circular dependency"))
    ELSE AddRuleStore(rule_name, rule_info,
                      _extract_dependencies(manager_rules, rule_info.logic.s))

\* an add_rule without the check that the name is new
add_rule_overwriting(rule_name, rule_info) ==
    /\ AddRuleChecked(rule_name, rule_info)
    /\ UNCHANGED outside_manager

add_rule(rule_name, rule_info) ==
    /\ IF \E i \in DOMAIN manager_rules : manager_rules[i].name = rule_name
       THEN AddRuleRejected(rule_name, rule_info, Reply(FALSE, "name exists"))
       ELSE AddRuleChecked(rule_name, rule_info)
    /\ UNCHANGED outside_manager

get_execution_order ==
    /\ added' = [op |-> "get_execution_order", out |-> Ok(execution_order)]
    /\ UNCHANGED <<manager_rules, rule_dependencies, execution_order>>
    /\ UNCHANGED outside_manager

\* the rule names and logic texts handed to add_rule
RuleNames == {<<"A">>, <<"B">>, <<"A", "B">>}

LogicTexts ==
    {<<>>, <<"A">>, <<"B">>, <<"A", "B">>, <<"A", "+", "B">>, <<"B", "+">>}

RuleInfo(logic) ==
    [keys |-> {"sheet_name", "cell_position", "logic"},
     sheet_name |-> Str(Results), cell_position |-> Str(<<"A", "1">>),
     logic |-> logic]

\* well-formed dicts, a dict whose logic is a number, a dict without
\* sheet_name and cell_position
RuleInfos ==
    {RuleInfo(Str(logic)) : logic \in LogicTexts}
    \cup {RuleInfo(Num(1)), [RuleInfo(Str(<<>>)) EXCEPT !.keys = {"logic"}]}

\* the state after RuleManager()
InitRules ==
    /\ manager_rules = <<>>
    /\ rule_dependencies = <<>>
    /\ execution_order = <<>>
    /\ added = NoCall
    /\ AnalyzerIdle
    /\ LocateIdle
    /\ TopNIdle
    /\ ControlIdle
    /\ RpaIdle

AddRule == \E rule_name \in RuleNames, rule_info \in RuleInfos :
              add_rule(rule_name, rule_info)

NextRules ==
    \/ AddRule
    \/ get_execution_order

SpecRules == InitRules /\ [][NextRules]_vars

(***************************************************************************)
(* Claims about the rule manager.                                          *)
(***************************************************************************)
\* the logic of stored rule i names stored rule j
C11_Names(i, j) ==
    Contains(manager_rules[i].info.logic.s, manager_rules[j].name)

\* stored rule j is reached from stored rule i in at most k references
RECURSIVE C11_Reaches(_, _, _)
C11_Reaches(i, j, k) ==
    /\ k > 0
    /\ \/ C11_Names(i, j)
       \/ \E m \in DOMAIN manager_rules :
             C11_Names(i, m) /\ C11_Reaches(m, j, k - 1)

\* C11: add_rule rejects every insertion that would close a cycle of name
\* references (a rule whose logic names itself, or B naming A when A names
\* B), so the stored rules never hold such a cycle.
C11_CyclesAreRejected ==
    \A i \in DOMAIN manager_rules : ~C11_Reaches(i, i, Len(manager_rules))

\* the position of a name in the execution order
C12_Place(name) == CHOOSE k \in DOMAIN execution_order : execution_order[k] = name

\* C12: the execution order holds every accepted rule name exactly once,
\* with every rule after all the rules of its recorded dependency list,
\* after each insertion; get_execution_order returns that order.
C12_OrderIsTopological ==
    /\ Len(execution_order) = Len(manager_rules)
    /\ Range(execution_order) = Range(RuleNamesOf(manager_rules))
    /\ DOMAIN rule_dependencies = Range(RuleNamesOf(manager_rules))
    /\ \A name \in DOMAIN rule_dependencies :
          \A d \in DOMAIN rule_dependencies[name] :
             /\ rule_dependencies[name][d] \in Range(execution_order)
             /\ C12_Place(rule_dependencies[name][d]) < C12_Place(name)
    /\ added.op = "add_rule" => added.out.exc = ""
    /\ added.op = "get_execution_order" => added.out.val = execution_order

\* C12 witness: AB was added after A and B, depends on both, and the
\* order returned is A, B, AB or B, A, AB
C12_Witness ==
    /\ added.op = "get_execution_order"
    /\ Len(added.out.val) = 3
    /\ added.out.val[3] = <<"A", "B">>
    /\ Len(rule_dependencies[<<"A", "B">>]) = 2

\* C13: a call of add_rule with a name that is already present returns a
\* failure and leaves the rules, the dependencies and the execution order
\* as they were; the names of the stored rules are pairwise different.
C13_DuplicateNamesRejected ==
    /\ [](\A i, j \in DOMAIN manager_rules :
             manager_rules[i].name = manager_rules[j].name => i = j)
    /\ [][(/\ added'.op = "add_rule"
           /\ \E i \in DOMAIN manager_rules :
                 manager_rules[i].name = added'.rule_name)
          => /\ added'.out.exc = ""
             /\ added'.out.val.ok = FALSE
             /\ manager_rules' = manager_rules
             /\ rule_dependencies' = rule_dependencies
             /\ execution_order' = execution_order]_vars

\* C13 witness: a second rule_info for a stored name has been turned down
C13_Witness ==
    /\ added.op = "add_rule"
    /\ added.out.val = Reply(FALSE, "name exists")
    /\ \E i \in DOMAIN manager_rules :
          /\ manager_rules[i].name = added.rule_name
          /\ manager_rules[i].info # added.rule_info
          /\ validate_rule(added.rule_info).ok

(***************************************************************************)
(* excel_analyzer_control.py: ReportGenerator._get_status.  The status is  *)
(* one of the strings "good", "warning", "bad".                            *)
(***************************************************************************)
TxtEfficiency == <<"u5E93", "u5B58", "u6548", "u7387">>

TxtShortageRisk == <<"u7F3A", "u6599", "u98CE", "u9669">>

TxtObsoleteRisk == <<"u5446", "u6EDE", "u98CE", "u9669">>

TxtTransportDays == <<"u8FD0", "u8F93", "u5929", "u6570">>

TxtSafetyTime == <<"u5B89", "u5168", "u65F6", "u95F4">>

TxtMOQImpact == <<"M", "O", "Q", "u5F71", "u54CD">>

\* ReportGenerator.thresholds
thresholds ==
    (TxtEfficiency :> [good |-> 90, warning |-> 70])
    @@ (TxtShortageRisk :> [high |-> 80, medium |-> 50])
    @@ (TxtObsoleteRisk :> [high |-> 70, medium |-> 40])
    @@ (TxtTransportDays :> [high |-> 30, medium |-> 15])
    @@ (TxtSafetyTime :> [high |-> 60, medium |-> 30])
    @@ (TxtMOQImpact :> [high |-> 500000, medium |-> 100000])

\* value >= bound for an int or float: every comparison with NaN is false
AtLeast(value, bound) == value.t = "num" /\ value.n >= bound

_get_status(rule_name, value) ==
    IF value.t \notin {"num", "nan"} THEN "warning"
    ELSE IF rule_name \notin DOMAIN thresholds THEN "warning"
    ELSE IF Contains(rule_name, TxtEfficiency)
    THEN IF AtLeast(value, thresholds[rule_name].good) THEN "good"
         ELSE IF AtLeast(value, thresholds[rule_name].warning) THEN "warning"
         ELSE "bad"
    ELSE IF \/ Contains(rule_name, <<"u98CE", "u9669">>)
            \/ Contains(rule_name, <<"u5929", "u6570">>)
            \/ Contains(rule_name, <<"u5F71", "u54CD">>)
    THEN IF AtLeast(value, thresholds[rule_name].high) THEN "bad"
         ELSE IF AtLeast(value, thresholds[rule_name].medium) THEN "warning"
         ELSE "good"
    ELSE "warning"

\* the largest percentage handed to _get_status
MaxValue == 125

StatusNames ==
    {TxtEfficiency, TxtShortageRisk, TxtObsoleteRisk, TxtTransportDays,
     TxtSafetyTime, TxtMOQImpact, <<"K", "P", "I">>}

StatusValues ==
    {Num(n) : n \in 0..MaxValue}
    \cup {Num(99999), Num(100000), Num(500000), NaN, None, Str(<<"9", "0">>)}

StatusArgs ==
    {[fn |-> "_get_status", rule_name |-> r, value |-> v] :
        r \in StatusNames, v \in StatusValues}

CallGetStatus ==
    /\ args.fn = "_get_status"
    /\ returned' = [op |-> args.fn,
                    out |-> Ok(_get_status(args.rule_name, args.value))]
    /\ UNCHANGED <<args, outside_extract>>

(***************************************************************************)
(* Claims about the KPI classes.                                           *)
(***************************************************************************)
\* the class the KPI strategy of rule_extractor.py puts the percentage n
\* in: the comment it selects from "bad<br>warning<br>good"
C14_StrategyClass(n) ==
    LET picked == extract_kpi_rule(
                      << <<Str(<<"h">>)>>, <<Pct(NatStr(n))>> >>,
                      Str(<<"A", "2">>),
                      Str(<<"b", "a", "d", "<", "b", "r", ">", "w", "a", "r", "n",
                            "i", "n", "g", "<", "b", "r", ">", "g", "o", "o", "d">>),
                      Str(<<>>)).val.comments.s
    IN  CASE picked = <<"b", "a", "d">> -> "bad"
          [] picked = <<"w", "a", "r", "n", "i", "n", "g">> -> "warning"
          [] picked = <<"g", "o", "o", "d">> -> "good"

\* C14: the classes have closed lower boundaries (the good threshold is
\* good, the warning threshold is warning, below it is bad), and the KPI
\* strategy puts every value in the class the report's _get_status gives.
C14_SameClosedBoundaries ==
    (/\ returned.op = "_get_status"
     /\ args.rule_name = TxtEfficiency
     /\ args.value.t = "num")
    => /\ returned.out.val = "good" <=> args.value.n >= 90
       /\ returned.out.val = "warning"
             <=> (args.value.n >= 70 /\ args.value.n < 90)
       /\ returned.out.val = "bad" <=> args.value.n < 70
       /\ returned.out.val = C14_StrategyClass(args.value.n)

(***************************************************************************)
(* excel_analyzer_control.py: ExcelAnalyzerControl._format_value.  A       *)
(* number handed to it is the decimal m * 10^e with m not ending in 0      *)
(* (Float), so that == of two numbers is equality of their records; a str  *)
(* is Text, anything else Other.                                           *)
(***************************************************************************)
RECURSIVE Pow10(_)
Pow10(k) == IF k = 0 THEN 1 ELSE 10 * Pow10(k - 1)

RECURSIVE NumDigits(_)
NumDigits(a) == IF a < 10 THEN 1 ELSE 1 + NumDigits(a \div 10)

Abs(m) == IF m < 0 THEN 0 - m ELSE m

RECURSIVE Float(_, _)
Float(m, e) ==
    IF m = 0 THEN [t |-> "num", s |-> <<>>, m |-> 0, e |-> 0]
    ELSE IF (m % 10) = 0 THEN Float(m \div 10, e + 1)
    ELSE [t |-> "num", s |-> <<>>, m |-> m, e |-> e]

Text(s) == [t |-> "str", s |-> s, m |-> 0, e |-> 0]

Other == [t |-> "None", s |-> <<>>, m |-> 0, e |-> 0]

\* abs(x) < 10^k and abs(x) > 10^k for x # 0
BelowPow10(x, k) == NumDigits(Abs(x.m)) + x.e <= k

AbovePow10(x, k) == ~BelowPow10(x, k) /\ ~(Abs(x.m) = 1 /\ x.e = k)

\* a without its last k digits, rounded to nearest, a tie to the even
\* neighbour (round() and the e format round the exact value so)
DropDigits(a, k) ==
    IF k > NumDigits(a) THEN 0
    ELSE LET q == a \div Pow10(k)
             r == a % Pow10(k)
             half == 5 * Pow10(k - 1)
         IN  IF r > half \/ (r = half /\ (q % 2) = 1) THEN q + 1 ELSE q

\* round(x, ndigits)
Round(x, ndigits) ==
    IF x.e >= 0 - ndigits THEN x
    ELSE LET q == DropDigits(Abs(x.m), 0 - ndigits - x.e)
         IN  Float(IF x.m < 0 THEN 0 - q ELSE q, 0 - ndigits)

\* the three mantissa digits and the exponent of f"{x:.2e}"
Mantissa3(x) ==
    LET a == Abs(x.m)
        d == NumDigits(a)
    IN  IF a = 0 THEN [m |-> 0, x |-> 0]
        ELSE IF d <= 3 THEN [m |-> a * Pow10(3 - d), x |-> d - 1 + x.e]
        ELSE IF DropDigits(a, d - 3) = 1000 THEN [m |-> 100, x |-> d + x.e]
        ELSE [m |-> DropDigits(a, d - 3), x |-> d - 1 + x.e]

SciText(neg, me) ==
    (IF neg THEN <<"-">> ELSE <<>>)
    \o <<Digits[(me.m \div 100) + 1], ".", Digits[((me.m \div 10) % 10) + 1],
         Digits[(me.m % 10) + 1], "e", IF me.x < 0 THEN "-" ELSE "+",
         Digits[(Abs(me.x) \div 10) + 1], Digits[(Abs(me.x) % 10) + 1]>>

\* f"{x:.2e}"
FormatE2(x) == Text(SciText(x.m < 0, Mantissa3(x)))

Unsigned(s) == IF s # <<>> /\ s[1] \in {"+", "-"} THEN Tail(s) ELSE s

\* float(s) on the texts of this model: surrounding whitespace, a sign,
\* digits with at most one point, an exponent after e
FloatOfParts(neg, whole, frac, exp) ==
    IF \/ ~AllDigits(whole \o frac) \/ whole \o frac = <<>>
       \/ ~AllDigits(Unsigned(exp)) \/ Unsigned(exp) = <<>>
    THEN Raise("ValueError")
    ELSE LET m == DigitsValue(whole \o frac)
             x == DigitsValue(Unsigned(exp))
         IN  Ok(Float(IF neg THEN 0 - m ELSE m,
                      (IF exp[1] = "-" THEN 0 - x ELSE x) - Len(frac)))

FloatOfMantissa(neg, parts, exp) ==
    IF Len(parts) > 2 THEN Raise("ValueError")
    ELSE FloatOfParts(neg, parts[1],
                      IF Len(parts) = 2 THEN parts[2] ELSE <<>>, exp)

FloatOfBody(neg, parts) ==
    IF Len(parts) > 2 THEN Raise("ValueError")
    ELSE FloatOfMantissa(neg, Split(parts[1], <<".">>),
                         IF Len(parts) = 2 THEN parts[2] ELSE <<"0">>)

FloatOfStripped(s) ==
    IF s = <<>> THEN Raise("ValueError")
    ELSE FloatOfBody(s[1] = "-", Split(Unsigned(s), <<"e">>))

float(s) == FloatOfStripped(Strip(s, Whitespace))

\* the isinstance(value, (int, float)) branch
FormatNumber(x) ==
    IF x.m = 0 THEN Float(0, 0)
    ELSE IF BelowPow10(x, -4) THEN FormatE2(x)
    ELSE IF AbovePow10(x, 6) THEN FormatE2(x)
    ELSE Round(x, 2)

\* the percentage branch: num is float(value.strip('%')) / 100
FormatPercent(stripped, parsed) ==
    IF parsed.exc # "" THEN Text(stripped)
    ELSE LET num == Float(parsed.val.m, parsed.val.e - 2)
         IN  IF num.m = 0 \/ BelowPow10(num, -4) THEN FormatE2(num)
             ELSE Round(num, 4)

FormatText(s, parsed) ==
    IF parsed.exc # "" THEN Text(Strip(s, Whitespace))
    ELSE FormatNumber(parsed.val)

_format_value(value) ==
    IF value.t = "num" THEN FormatNumber(value)
    ELSE IF value.t = "str"
    THEN IF Contains(value.s, <<"%">>)
         THEN FormatPercent(Strip(value.s, {"%"}), float(Strip(value.s, {"%"})))
         ELSE FormatText(value.s, float(value.s))
    ELSE value

FormatNumbers ==
    {Float(0, 0), Float(5, 0), Float(-5, 0), Float(1234, 0), Float(1, 6),
     Float(1000001, 0), Float(-1000001, 0), Float(1234567, 0),
     Float(5, -1), Float(125, -3), Float(12346, -3), Float(123456, -2),
     Float(1, -4), Float(1, -5), Float(999, -7), Float(9999, -8)}

FormatTexts ==
    {<<"5", "0", "%">>, <<"1", "2", ".", "5", "%">>, <<"0", "%">>,
     <<"0", ".", "0", "0", "1", "%">>, <<"a", "%">>, <<" ", "a", "%">>,
     <<"%">>, <<"a", "b", "c">>, <<" ", "a", "b", " ">>, <<>>,
     <<"3", ".", "1", "4", "1", "5", "9">>, <<" ", "4", "2", " ">>,
     <<"1", "e", "7">>, <<"1", ".", "5", "e", "-", "0", "5">>,
     <<"-", "2", "5", "0", "0", "0", "0", "0">>, <<"1", ".", "2", ".", "3">>}

FormatArgs ==
    {[fn |-> "_format_value", value |-> v] :
        v \in FormatNumbers \cup {Text(s) : s \in FormatTexts} \cup {Other}}

CallFormatValue ==
    /\ args.fn = "_format_value"
    /\ returned' = [op |-> args.fn, out |-> Ok(_format_value(args.value))]
    /\ UNCHANGED <<args, outside_extract>>

(***************************************************************************)
(* runner.py: run_analysis_for_aa.  What it prints is the sequence of the  *)
(* JSON documents written to standard output.                              *)
(***************************************************************************)
\* the parameters of ExcelAnalyzerControl.__init__ after self: excel_path,
\* entity_name, week_number, none with a default
InitParameters == 3

\* the parameters of ExcelAnalyzerControl.load_excel after self
LoadExcelParameters == 0

\* the methods of ExcelAnalyzerControl
ControlMethods ==
    {"__init__", "load_excel", "load_rules", "extract_kpi_data",
     "_parse_cell_position", "_format_value", "_format_display_value",
     "_apply_logic", "generate_report", "save_report",
     "_is_valid_cell_position"}

JsonObject(error) == [doc |-> "object", success |-> FALSE, error |-> error]

JsonArray == [doc |-> "array", success |-> TRUE, error |-> ""]

\* the try block of run_analysis_for_aa: the results to print, or the
\* exception raised; can_load tells whether the workbook at the path loads
RunnerTry(can_load) ==
    IF InitParameters # 0 THEN Raise("TypeError")
    ELSE IF LoadExcelParameters # 1 THEN Raise("TypeError")
    ELSE IF ~can_load THEN Raise("RuntimeError")
    ELSE IF "analyze_all" \notin ControlMethods THEN Raise("AttributeError")
    ELSE Ok(JsonArray)

RunnerPrints(out) ==
    IF out.exc # "" THEN <<JsonObject(out.exc)>> ELSE <<out.val>>

run_analysis_for_aa(argv, can_load) ==
    IF Len(argv) < 2 THEN <<JsonObject("No input file path provided.")>>
    ELSE RunnerPrints(RunnerTry(can_load))

\* sys.argv: the script alone, or with a path and further words
RunnerArgs ==
    {[fn |-> "run_analysis_for_aa", argv |-> argv, can_load |-> can_load] :
        argv \in {<<"runner.py">>, <<"runner.py", "data.xlsx">>,
                  <<"runner.py", "data.xlsx", "E88">>},
        can_load \in BOOLEAN}

CallRunner ==
    /\ args.fn = "run_analysis_for_aa"
    /\ returned' = [op |-> args.fn,
                    out |-> Ok(run_analysis_for_aa(args.argv, args.can_load))]
    /\ UNCHANGED <<args, outside_extract>>

InitCalls ==
    /\ args \in StatusArgs \cup FormatArgs \cup RunnerArgs
    /\ returned = NoCall
    /\ AnalyzerIdle
    /\ LocateIdle
    /\ ManagerIdle
    /\ ControlIdle
    /\ RpaIdle

NextCalls ==
    \/ CallGetStatus
    \/ CallFormatValue
    \/ CallRunner

SpecCalls == InitCalls /\ [][NextCalls]_vars

\* C15: formatting a value _format_value returned gives the same value
\* back, also when the first result is a text in scientific notation or
\* comes from a percentage text.
C15_FormatValueIdempotent ==
    returned.op = "_format_value"
    => _format_value(returned.out.val) = returned.out.val

(***************************************************************************)
(* excel_analyzer_control.py: ExcelAnalyzerControl.load_excel and          *)
(* load_rules.  A workbook is a record: kind "ok" with the rows of its     *)
(* first sheet, "nocolumns" when a required column is missing there,       *)
(* "unreadable" when pd.read_excel raises for it.                          *)
(***************************************************************************)
\* the largest number of rows of the rule table of a workbook
MaxTableRows == 2

\* self.excel.sheet_names
ControlSheets == {<<"R">>, <<"S">>}

\* str(cell) of a cell of the rule table
CellStr(cell) == IF cell.t = "nan" THEN <<"n", "a", "n">> ELSE cell.s

ControlRow(rule_name, sheet_name, cell_position, logic) ==
    [rule_name |-> rule_name, sheet_name |-> sheet_name,
     cell_position |-> cell_position, logic |-> logic]

\* rows of a rule table: two valid rows of one name, a valid row of another
\* name, a row of a sheet that is not there, a row with a lowercase
\* address and a row with a blank name
ControlRows ==
    {ControlRow(Str(<<"A">>), Str(<<"S">>), Str(<<"A", "1">>), NaN),
     ControlRow(Str(<<"A">>), Str(<<"S">>), Str(<<"B", "2">>),
                Str(<<"x", "*", "2">>)),
     ControlRow(Str(<<"B">>), Str(<<" ", "S">>), Str(<<"A", "A", "1", "0">>), NaN),
     ControlRow(Str(<<"B">>), Str(<<"X">>), Str(<<"A", "1">>), NaN),
     ControlRow(Str(<<"A">>), Str(<<"S">>), Str(<<"a", "1">>), NaN),
     ControlRow(Str(<<" ">>), Str(<<"S">>), Str(<<"A", "1">>), NaN)}

ControlFiles ==
    {[kind |-> "unreadable", rows |-> <<>>], [kind |-> "nocolumns", rows |-> <<>>]}
    \cup {[kind |-> "ok", rows |-> rows] :
            rows \in UNION {[1..k -> ControlRows] : k \in 0..MaxTableRows}}

\* the three "continue" branches of the loop of load_rules
RowSkipped(row) ==
    \/ Strip(CellStr(row.rule_name), Whitespace) = <<>>
    \/ Strip(CellStr(row.sheet_name), Whitespace) \notin ControlSheets
    \/ ~_is_valid_cell_position(Strip(CellStr(row.cell_position), Whitespace))

\* the rule load_rules stores for a row
StoredRule(row) ==
    [sheet_name |-> Strip(CellStr(row.sheet_name), Whitespace),
     cell_position |-> Strip(CellStr(row.cell_position), Whitespace),
     logic |-> IF row.logic.t = "nan" THEN <<>> ELSE CellStr(row.logic)]

\* self.rules after the loop of load_rules over the first k rows
RECURSIVE RulesAfterRows(_, _, _)
RulesAfterRows(stored, rows, k) ==
    IF k = 0 THEN stored
    ELSE IF RowSkipped(rows[k]) THEN RulesAfterRows(stored, rows, k - 1)
    ELSE (Strip(CellStr(rows[k].rule_name), Whitespace) :> StoredRule(rows[k]))
         @@ RulesAfterRows(stored, rows, k - 1)

\* lines 50-82 of load_rules
LoadRows(after) ==
    /\ control_rules' = after
    /\ loaded' = [op |-> "load_rules", out |-> Ok(DOMAIN after # {})]

load_excel(file) ==
    /\ IF file.kind = "None"
       THEN /\ loaded' = [op |-> "load_excel", out |-> Ok(FALSE)]
            /\ UNCHANGED excel
       ELSE /\ excel' = file
            /\ loaded' = [op |-> "load_excel", out |-> Ok(TRUE)]
    /\ UNCHANGED <<control_rules, outside_control>>

load_rules ==
    /\ IF excel.kind # "ok"
       THEN /\ loaded' = [op |-> "load_rules", out |-> Ok(FALSE)]
            /\ UNCHANGED control_rules
       ELSE LoadRows(RulesAfterRows(control_rules, excel.rows, Len(excel.rows)))
    /\ UNCHANGED <<excel, outside_control>>

InitControl ==
    /\ ControlIdle
    /\ AnalyzerIdle
    /\ LocateIdle
    /\ TopNIdle
    /\ ManagerIdle
    /\ RpaIdle

\* load_excel reads the file at excel_path as it is at that moment; NoExcel
\* stands for a path pd.ExcelFile cannot open
LoadExcel == \E file \in ControlFiles \cup {NoExcel} : load_excel(file)

NextControl ==
    \/ LoadExcel
    \/ load_rules

SpecControl == InitControl /\ [][NextControl]_vars

(***************************************************************************)
(* Claims about load_rules.                                                *)
(***************************************************************************)
C16_Dropped(rows) == Cardinality({i \in DOMAIN rows : RowSkipped(rows[i])})

\* C16: load_rules raises nothing, and after it has read a rule table the
\* number of loaded rules is the number of rows of the table minus the
\* number of rows it dropped.
C16_CountIsRowsMinusDropped ==
    loaded.op = "load_rules"
    => /\ loaded.out.exc = ""
       /\ excel.kind = "ok"
          => Cardinality(DOMAIN control_rules)
                = Len(excel.rows) - C16_Dropped(excel.rows)

\* C17: a load_rules call on a rule table without a valid row returns
\* False, also when an earlier call on the same object returned True.
C17_NoValidRowFails ==
    (/\ loaded.op = "load_rules"
     /\ excel.kind = "ok"
     /\ \A i \in DOMAIN excel.rows : RowSkipped(excel.rows[i]))
    => loaded.out.val = FALSE

(***************************************************************************)
(* excel_analyzer_control.py: the caches of DataManager, with the workbook *)
(* replaced between calls.                                                 *)
(***************************************************************************)
\* the addresses looked up: the four cells of the sheet, a cell outside it
\* and a lowercase address
CacheAddresses ==
    {<<"A", "1">>, <<"B", "1">>, <<"A", "2">>, <<"B", "2">>, <<"C", "1">>,
     <<"a", "1">>}

CacheGetCellValue ==
    /\ \E sheet_name \in {Results, Missing}, cell_position \in CacheAddresses :
          /\ position' = cell_position
          /\ get_cell_value(sheet_name, cell_position)
    /\ UNCHANGED excel_file
    /\ UNCHANGED outside_locate

CacheGetSheetData ==
    /\ \E sheet_name \in {Results, Missing} :
          /\ sheet_cache' = get_sheet_data(sheet_cache, sheet_name).cache
          /\ call' = [op |-> "get_sheet_data", sheet |-> sheet_name,
                      out |-> get_sheet_data(sheet_cache, sheet_name).df]
    /\ UNCHANGED <<position, value_cache, excel_file>>
    /\ UNCHANGED outside_locate

clear_cache ==
    /\ sheet_cache' = <<>>
    /\ value_cache' = <<>>
    /\ call' = [op |-> "clear_cache", sheet |-> <<>>, out |-> Ok(None)]
    /\ UNCHANGED <<position, excel_file>>
    /\ UNCHANGED outside_locate

\* the owner of the DataManager gives it another workbook
SwapWorkbook ==
    /\ \E file \in DOMAIN ExcelFiles \ {excel_file} : excel_file' = file
    /\ call' = [op |-> "excel_file", sheet |-> <<>>, out |-> Ok(None)]
    /\ UNCHANGED <<position, sheet_cache, value_cache>>
    /\ UNCHANGED outside_locate

InitCache ==
    /\ position = <<>>
    /\ call = NoCall
    /\ sheet_cache = <<>>
    /\ value_cache = <<>>
    /\ excel_file = "first"
    /\ AnalyzerIdle
    /\ TopNIdle
    /\ ManagerIdle
    /\ ControlIdle
    /\ RpaIdle

NextCache ==
    \/ CacheGetCellValue
    \/ CacheGetSheetData
    \/ clear_cache
    \/ SwapWorkbook

SpecCache == InitCache /\ [][NextCache]_vars

(***************************************************************************)
(* Claims about the caches.                                                *)
(***************************************************************************)
\* the cell of the workbook the DataManager holds now, for an address
\* inside the sheet Results
C18_Current(cell_position) ==
    ExcelFiles[excel_file][Results]
        [IF cell_position[2] = "1" THEN 1 ELSE 2]
        [IF cell_position[1] = "A" THEN 1 ELSE 2]

\* C18: get_cell_value returns the value the current workbook holds at the
\* address, also after the workbook was replaced, and clear_cache leaves
\* both caches empty.
C18_NeverStale ==
    /\ (/\ call.op = "get_cell_value"
        /\ call.sheet = Results
        /\ position \in {<<"A", "1">>, <<"B", "1">>, <<"A", "2">>, <<"B", "2">>})
       => call.out.val = C18_Current(position)
    /\ call.op = "clear_cache" => (sheet_cache = <<>> /\ value_cache = <<>>)

(***************************************************************************)
(* Claims about the entry point.                                           *)
(***************************************************************************)
\* C19: run_analysis_for_aa prints one JSON document: the array of results
\* when a path is given and the workbook loads, the object with success
\* false only when the path is missing or the workbook does not load.
C19_OneJsonDocument ==
    returned.op = "run_analysis_for_aa"
    => /\ Len(returned.out.val) = 1
       /\ returned.out.val[1].doc = "array"
             <=> (Len(args.argv) >= 2 /\ args.can_load)
       /\ returned.out.val[1].doc = "object"
             <=> (Len(args.argv) < 2 \/ ~args.can_load)

(***************************************************************************)
(* rpa_interface.py: RPAInterface.analyze_data, one step for each method   *)
(* of its ExcelAnalyzer it calls.  rpa.phase is "running" from the call to *)
(* the return; ret tells which method the call has come to.                *)
(***************************************************************************)
\* output paths df.to_excel cannot write to
UnwritablePaths == {Str(<<"/", "r">>)}

\* main.py: ExcelAnalyzer.generate_report
generate_report(output_file) ==
    /\ ret' = [op |-> "generate_report",
               out |-> Ok(Truthy(results) /\ output_file \notin UnwritablePaths)]
    /\ UNCHANGED <<rules, data_dict, results, outside_analyzer>>

\* the rule tables, data files and output_file arguments of analyze_data:
\* no output_file, an empty path, a path that can be written, one that
\* cannot
RpaRuleFiles == {file \in RuleFiles : Len(file.records) <= 1}

RpaOutputFiles == {None, Str(<<>>), Str(<<"r">>)} \cup UnwritablePaths

\* the messages of the replies: 加载规则表失败, 加载数据文件失败,
\* 处理规则失败, 生成报告失败, 分析完成
RpaReply(success, message, result_list) ==
    [success |-> success, message |-> message, results |-> result_list]

analyze_data(rule_file, data_file, output_file) ==
    /\ rpa.phase = "idle"
    /\ rpa' = [phase |-> "running", rule_file |-> rule_file,
               data_file |-> data_file, output_file |-> output_file,
               reply |-> NoReply, formatted |-> None]
    /\ ret' = [op |-> "analyze_data", out |-> Ok(0)]
    /\ UNCHANGED <<rules, data_dict, results, outside_rpa>>

AnalyzeData ==
    \E rule_file \in RpaRuleFiles, data_file \in DataFiles,
       output_file \in RpaOutputFiles :
        analyze_data(rule_file, data_file, output_file)

RpaLoadRuleTable ==
    /\ rpa.phase = "running"
    /\ ret.op = "analyze_data"
    /\ load_rule_table(rpa.rule_file)

RpaLoadExcelData ==
    /\ rpa.phase = "running"
    /\ ret.op = "load_rule_table"
    /\ ret.out.val
    /\ load_excel_data(rpa.data_file)

\* analyze_data going on to process_rules whatever load_excel_data returned
RpaProcessRules_unchecked ==
    /\ rpa.phase = "running"
    /\ ret.op = "load_excel_data"
    /\ process_rules

RpaProcessRules ==
    /\ rpa.phase = "running"
    /\ ret.op = "load_excel_data"
    /\ ret.out.val
    /\ process_rules

RpaGenerateReport ==
    /\ rpa.phase = "running"
    /\ ret.op = "process_rules"
    /\ ret.out.val
    /\ Truthy(rpa.output_file)
    /\ generate_report(rpa.output_file)

\* self.analyzer.get_results()
RpaResults == IF Truthy(results) THEN results ELSE List(<<>>)

\* the return statements of analyze_data
RpaReplyNow ==
    CASE ret.op = "load_rule_table" ->
            RpaReply(FALSE, "load_rule_table failed", List(<<>>))
      [] ret.op = "load_excel_data" ->
            RpaReply(FALSE, "load_excel_data failed", List(<<>>))
      [] ret.op = "process_rules" /\ ~ret.out.val ->
            RpaReply(FALSE, "process_rules failed", List(<<>>))
      [] ret.op = "generate_report" /\ ~ret.out.val ->
            RpaReply(FALSE, "generate_report failed", RpaResults)
      [] OTHER -> RpaReply(TRUE, "done", RpaResults)

RpaReturn ==
    /\ rpa.phase = "running"
    /\ \/ ret.op \in {"load_rule_table", "load_excel_data"} /\ ~ret.out.val
       \/ ret.op = "process_rules" /\ ~(ret.out.val /\ Truthy(rpa.output_file))
       \/ ret.op = "generate_report"
    /\ rpa' = [rpa EXCEPT !.phase = "idle", !.reply = RpaReplyNow]
    /\ UNCHANGED <<analyzer_vars, outside_rpa>>

\* str(x) for a str, None, an empty cell and a whole number of an
\* all-integer column
PyStr(x) ==
    CASE x.t = "str" -> x.s
      [] x.t = "None" -> <<"N", "o", "n", "e">>
      [] x.t = "nan" -> <<"n", "a", "n">>
      [] x.t = "num" ->
            (IF x.n < 0 THEN <<"-">> ELSE <<>>) \o NatStr(IF x.n < 0 THEN 0 - x.n ELSE x.n)

\* ', '.join(str(x) for x in items) from item k on
RECURSIVE JoinStrs(_, _)
JoinStrs(items, k) ==
    IF k > Len(items) THEN <<>>
    ELSE IF k = Len(items) THEN PyStr(items[k])
    ELSE PyStr(items[k]) \o <<",", " ">> \o JoinStrs(items, k + 1)

\* main.py: ExcelAnalyzer._format_result
_format_result(result) ==
    IF result.t = "list" THEN Str(JoinStrs(result.items, 1))
    ELSE IF result.t = "None" THEN Str(<<>>)
    ELSE Str(PyStr(result))

\* the dictionary get_formatted_results appends for a result
FormattedResult(result) ==
    ResultDict(Str(PyStr(result.description)), _format_result(result.result),
               Str(PyStr(result.comments)), Str(PyStr(result.optimization_plan)))

FormattedResults(result_list) ==
    List([i \in DOMAIN result_list.items |-> FormattedResult(result_list.items[i])])

get_formatted_results ==
    /\ rpa.phase = "idle"
    /\ rpa' = [rpa EXCEPT !.formatted = FormattedResults(RpaResults)]
    /\ UNCHANGED <<analyzer_vars, outside_rpa>>

\* the state after RPAInterface()
InitRpa ==
    /\ RpaIdle
    /\ AnalyzerIdle
    /\ LocateIdle
    /\ TopNIdle
    /\ ManagerIdle
    /\ ControlIdle

NextRpa ==
    \/ AnalyzeData
    \/ RpaLoadRuleTable
    \/ RpaLoadExcelData
    \/ RpaProcessRules
    \/ RpaGenerateReport
    \/ RpaReturn
    \/ get_formatted_results

SpecRpa == InitRpa /\ [][NextRpa]_vars

(***************************************************************************)
(* Claims about analyze_data.                                              *)
(***************************************************************************)
\* both files of the running call have loaded in full
C20_BothLoaded ==
    /\ rpa.rule_file.readable
    /\ rules = List(rpa.rule_file.records)
    /\ rpa.data_file.readable
    /\ rpa.data_file.bad = {}
    /\ data_dict = Dict(SheetsRead(rpa.data_file, Len(rpa.data_file.sheet_names)))

C20_LoadFailed(running) ==
    \/ ~running.rule_file.readable
    \/ ~running.data_file.readable
    \/ running.data_file.bad # {}

\* C20: in an analyze_data call process_rules runs only after both loads
\* of that call have succeeded, a call with a failing load returns success
\* false and no results without process_rules having run, and
\* generate_report runs only after process_rules has returned True.
C20_LoadsBeforeRules ==
    /\ [][/\ (ret'.op = "process_rules" /\ ret' # ret)
             => (rpa.phase = "running" /\ C20_BothLoaded)
          /\ (ret'.op = "generate_report" /\ ret' # ret)
             => (ret.op = "process_rules" /\ ret.out.val)]_vars
    /\ []((/\ rpa.phase = "idle"
           /\ rpa.reply # NoReply
           /\ C20_LoadFailed(rpa))
          => /\ ~rpa.reply.success
             /\ rpa.reply.results = List(<<>>)
             /\ ret.op \in {"load_rule_table", "load_excel_data"})

\* a call whose data file failed to load has returned, on an analyzer that
\* holds the rules of this call and the results of an earlier call
C20_Witness ==
    /\ rpa.phase = "idle"
    /\ rpa.reply.message = "load_excel_data failed"
    /\ Truthy(rules)
    /\ Truthy(data_dict)
    /\ Truthy(results)

(***************************************************************************)
(* Claims about the recorded dependencies of the rule manager.             *)
(***************************************************************************)
\* the position of a stored rule in self.rules
C21_Index(name) ==
    CHOOSE i \in DOMAIN manager_rules : manager_rules[i].name = name

\* C21: the dependency list recorded for a rule holds only names of rules
\* accepted before it (never its own name, never a later rule), so no rule
\* reaches itself through recorded dependencies, no add_rule call is
\* rejected for a circular dependency, and the sort of the execution order
\* never raises.
C21_DependenciesAreEarlierRules ==
    /\ \A name \in DOMAIN rule_dependencies :
          /\ name \in Range(RuleNamesOf(manager_rules))
          /\ \A d \in DOMAIN rule_dependencies[name] :
                /\ rule_dependencies[name][d] \in Range(RuleNamesOf(manager_rules))
                /\ C21_Index(rule_dependencies[name][d]) < C21_Index(name)
          /\ ~dfs(rule_dependencies, name, {})
    /\ added.op = "add_rule"
       => /\ added.out.exc = ""
          /\ added.out.val.msg # "circular dependency"

\* C21 witness: the first rule's logic names the second rule, which was
\* added later with a logic that names the first: only the second rule has
\* a recorded dependency
C21_Witness ==
    /\ Len(manager_rules) = 2
    /\ added.op = "add_rule"
    /\ added.out.val.ok
    /\ Contains(manager_rules[1].info.logic.s, manager_rules[2].name)
    /\ rule_dependencies[manager_rules[1].name] = <<>>
    /\ rule_dependencies[manager_rules[2].name] = <<manager_rules[1].name>>

(***************************************************************************)
(* Claims about the results kept by the analyzer of an RPAInterface.       *)
(***************************************************************************)
C22_LoadFailures == {"load_rule_table failed", "load_excel_data failed"}

\* C22: ExcelAnalyzer.results changes only in a process_rules that returns
\* True; an analyze_data call that fails in one of its loads returns an
\* empty results list and leaves the results of the earlier run, and
\* get_formatted_results after it still gives one formatted entry for each
\* of those results.
C22_ResultsKeptOnFailedLoad ==
    /\ [][/\ results' # results
             => (ret'.op = "process_rules" /\ ret'.out.val /\ ret.op # "process_rules")
          /\ (/\ rpa.phase = "running"
              /\ rpa'.phase = "idle"
              /\ rpa'.reply.message \in C22_LoadFailures)
             => (rpa'.reply.results = List(<<>>) /\ results' = results)
          /\ (rpa'.formatted # None /\ rpa.formatted = None)
             => /\ results' = results
                /\ Len(rpa'.formatted.items)
                      = IF results = None THEN 0 ELSE Len(results.items)
                /\ \A i \in DOMAIN rpa'.formatted.items :
                      /\ rpa'.formatted.items[i].description
                            = results.items[i].description
                      /\ rpa'.formatted.items[i].comments
                            = results.items[i].comments
                      /\ rpa'.formatted.items[i].result = Str(<<>>)
                            <=> results.items[i].result \in {None, Str(<<>>), List(<<>>)}
         ]_vars

\* C22 witness: the last call failed in a load and returned no results,
\* and get_formatted_results after it has returned the formatted results of
\* the earlier run
C22_Witness ==
    /\ rpa.phase = "idle"
    /\ rpa.reply.message \in C22_LoadFailures
    /\ rpa.reply.results = List(<<>>)
    /\ Truthy(results)
    /\ rpa.formatted # None
    /\ Len(rpa.formatted.items) = Len(results.items)

(***************************************************************************)
(* C23: the shape of the 'result' field of a Top-N rule.                   *)
(***************************************************************************)
\* the call just made reached the if/elif chain of lines 108-122: the sheet
\* is present, the rule is no KPI rule, the Rule text is a non-empty str and
\* the Result field names a target column
C23_ReachedChain ==
    /\ returned.op = "extract_rule_data"
    /\ args.fn = "extract_rule_data"
    /\ args.rule_row.Sheet.t = "str"
    /\ args.rule_row.Sheet.s \in DOMAIN Workbook
    /\ args.rule_row.Description # Str(InventoryEfficiency)
    /\ args.rule_row.Rule.t = "str"
    /\ Truthy(args.rule_row.Rule)
    /\ parse_result_column(args.rule_row.Result).exc = ""
    /\ Truthy(parse_result_column(args.rule_row.Result).val)

\* what the branch taken in the chain got from extract_top_n_values
C23_Extraction ==
    RuleKind(args.rule_row.Rule.s, Workbook[args.rule_row.Sheet.s],
             parse_result_column(args.rule_row.Result).val.s)

\* the call was a Top-N rule whose extraction returned a key list
C23_TopNCall == C23_ReachedChain /\ C23_Extraction.exc = ""

\* the N of the branch taken in the chain
C23_N ==
    IF Contains(args.rule_row.Rule.s, TxtLowest5)
          \/ Contains(args.rule_row.Rule.s, TxtHighest5) THEN 5
    ELSE IF Contains(args.rule_row.Rule.s, TxtLargest3)
          \/ Contains(args.rule_row.Rule.s, TxtMostDays3)
          \/ Contains(args.rule_row.Rule.s, TxtAO3) THEN 3
    ELSE 1

\* C23: for every Top-N rule, whatever its N, the 'result' field returned by
\* extract_rule_data is a list exactly when the extraction yields no key or
\* at least two keys, and then it is that key list; when the extraction
\* yields exactly one key the field is that key itself, which is no list.
\* So a rule of 5 or 3 with one usable row returns the bare key, and a rule
\* of 1 with no usable row returns the empty list.
C23_ListExceptForOneKey ==
    C23_TopNCall =>
        /\ returned.out.exc = ""
        /\ (returned.out.val.result.t = "list")
               <=> (Len(C23_Extraction.val) # 1)
        /\ Len(C23_Extraction.val) = 1 =>
               /\ returned.out.val.result = C23_Extraction.val[1]
               /\ C23_Extraction.val[1].t # "list"
        /\ Len(C23_Extraction.val) # 1 =>
               returned.out.val.result = List(C23_Extraction.val)
        /\ Len(C23_Extraction.val) <= C23_N

\* a rule of 5 on the Sparse sheet, whose only usable row carries the key
\* K1, has returned the bare key
C23_Witness ==
    /\ C23_TopNCall
    /\ C23_N = 5
    /\ args.rule_row.Sheet = Str(Sparse)
    /\ C23_Extraction.val = << Str(<<"K", "1">>) >>
    /\ returned.out.val.result = Str(<<"K", "1">>)

\* a rule of 1 on the Sparse sheet, whose top row has an empty key, has
\* returned the empty list
C23_WitnessEmptyList ==
    /\ C23_TopNCall
    /\ C23_N = 1
    /\ args.rule_row.Sheet = Str(Sparse)
    /\ C23_Extraction.val = <<>>
    /\ returned.out.val.result = List(<<>>)

====
